---- MODULE Spec2Model ----
(***************************************************************************)
(* Model of the pyth price-oracle emulator of foonetic/solarium:           *)
(* the fixed-layout account codec (pyth/src/state.rs), the instruction    *)
(* codec (pyth/src/instruction.rs, pyth/src/pack.rs) and the dispatcher   *)
(* with its handlers (pyth/src/processor.rs, pyth/src/processor/*.rs).    *)
(*                                                                         *)
(* Byte buffers are sequences of 0..255; the byte at Rust offset x is      *)
(* buf[x+1].  Fixed-width integers are kept in their full width as tuples  *)
(* of 16-bit limbs, least significant first (u32/i32: 2 limbs, u64/i64:    *)
(* 4 limbs); the most significant limb of a signed integer is signed       *)
(* (-32768..32767), so the tuple denotes the two's-complement value        *)
(* l1 + 2^16*l2 + ... and no value is truncated.                          *)
(* A Rust panic (slice index out of range, unwrap of a failed conversion)  *)
(* is the outcome Panic: the invocation terminates abnormally and returns  *)
(* no value.                                                               *)
(***************************************************************************)
EXTENDS Integers, Sequences, FiniteSets, TLC

\* ------------------------------------------------------------------------
\* Outcomes
\* ------------------------------------------------------------------------
Ok(v) == [tag |-> "Ok", val |-> v]

Err(e) == [tag |-> "Err", err |-> e]

Panic == [tag |-> "Panic"]

\* mutant: the first two failure kinds declared in the other order
PythError_reordered ==
  [CouldNotDecodeInstruction |-> 0, NotImplemented |-> 1,
   InvalidInstructionId |-> 2, InvalidAccount |-> 3,
   InvalidRequestStatus |-> 4, InvalidSeeds |-> 5]

\* error.rs: enum PythError, discriminants in declaration order
PythError ==
  [NotImplemented |-> 0, CouldNotDecodeInstruction |-> 1,
   InvalidInstructionId |-> 2, InvalidAccount |-> 3,
   InvalidRequestStatus |-> 4, InvalidSeeds |-> 5]

\* mutant: every failure kind becomes the same generic host error
ProgramError_from_generic(e) == [kind |-> "InvalidInstructionData", code |-> 0]

\* error.rs: impl From<PythError> for ProgramError
ProgramError_from(e) == [kind |-> "Custom", code |-> e]

\* solana_program::account_info::next_account_info on an exhausted iterator
NotEnoughAccountKeys == [kind |-> "NotEnoughAccountKeys", code |-> 0]

\* ------------------------------------------------------------------------
\* Little-endian fixed-width integers
\* ------------------------------------------------------------------------
Byte == 0..255

Limb == 256 * 256

HalfLimb == 128 * 256

\* bytes (a sequence of 2n bytes) -> n unsigned limbs
LimbsOf(bytes) ==
  [k \in 1..(Len(bytes) \div 2) |-> bytes[2 * k - 1] + 256 * bytes[2 * k]]

\* n limbs (each 0..65535) -> 2n bytes
BytesOf(limbs) ==
  [k \in 1..(2 * Len(limbs)) |->
     IF k % 2 = 1 THEN limbs[(k + 1) \div 2] % 256
                  ELSE limbs[(k + 1) \div 2] \div 256]

\* reinterpret the top limb as signed / unsigned (two's complement)
ToSigned(limbs) ==
  [limbs EXCEPT ![Len(limbs)] = IF @ >= HalfLimb THEN @ - Limb ELSE @]

ToUnsigned(limbs) ==
  [limbs EXCEPT ![Len(limbs)] = IF @ < 0 THEN @ + Limb ELSE @]

u32_from_le_bytes(bytes) == LimbsOf(bytes)

i32_from_le_bytes(bytes) == ToSigned(LimbsOf(bytes))

u64_from_le_bytes(bytes) == LimbsOf(bytes)

\* mutant: the bytes read as an unsigned integer
i64_from_le_bytes_unsigned(bytes) == LimbsOf(bytes)

i64_from_le_bytes(bytes) == ToSigned(LimbsOf(bytes))

u32_to_le_bytes(v) == BytesOf(v)

i32_to_le_bytes(v) == BytesOf(ToUnsigned(v))

u64_to_le_bytes(v) == BytesOf(v)

i64_to_le_bytes(v) == BytesOf(ToUnsigned(v))

\* a small natural as u32 / u64 / i64
U32Of(n) == <<n % Limb, n \div Limb>>

U64Of(n) == <<n % Limb, n \div Limb, 0, 0>>

I64Of(n) == IF n >= 0 THEN <<n % Limb, n \div Limb, 0, 0>>
            ELSE <<(n % Limb), Limb - 1, Limb - 1, -1>>

\* ------------------------------------------------------------------------
\* arrayref: array_ref! / array_refs! / mut_array_refs!
\* ------------------------------------------------------------------------
RECURSIVE SumTo(_, _)
\* sum of the first k widths: the offset of field k+1
SumTo(widths, k) == IF k = 0 THEN 0 ELSE widths[k] + SumTo(widths, k - 1)

\* array_refs![src, w1, ..., wn]: the k-th sub-array
array_refs(src, widths, k) ==
  SubSeq(src, SumTo(widths, k - 1) + 1, SumTo(widths, k))

\* mutant: the bytes after the record are cleared
Overwrite_clears_tail(dst, bytes) ==
  bytes \o [i \in 1..(Len(dst) - Len(bytes)) |-> 0]

\* write `bytes` over dst[0..Len(bytes)), only called with Len(dst) >= Len(bytes)
Overwrite(dst, bytes) == bytes \o SubSeq(dst, Len(bytes) + 1, Len(dst))

RepeatByte(b, n) == [i \in 1..n |-> b]

\* ------------------------------------------------------------------------
\* error.rs: location-tagged error codes
\* ------------------------------------------------------------------------
\* u32 `+` on limbs: the sum modulo 2^32, and whether it left the 32 bits
u32_add(a, b) ==
  LET lo == a[1] + b[1]
      hi == a[2] + b[2] + (lo \div Limb)
  IN  [val |-> <<lo % Limb, hi % Limb>>, overflow |-> hi >= Limb]

\* mutant: the file id is shifted by 16 bits only
err_at_shift16(line, file_id) == u32_add(line, <<0, file_id>>)

\* error.rs: err_at, line + ((file_id as u32) << 24); file_id is a u8
err_at(line, file_id) == u32_add(line, <<0, file_id * 256>>)

\* error.rs: assert_or_err!(val, file_id) at source line `line`; the custom
\* code is kept as a u32 in limbs; an overflowing sum panics (overflow checks
\* on) or wraps (overflow checks off)
assert_or_err(val, file_id, line) ==
  IF val THEN {Ok(<<>>)}
  ELSE LET code == err_at(line, file_id) IN
       {Err([kind |-> "Custom", code |-> code.val])}
         \cup (IF code.overflow THEN {Panic} ELSE {})

\* ------------------------------------------------------------------------
\* state.rs: enumerations (#[repr(u32)], TryFromPrimitive, IntoPrimitive)
\* ------------------------------------------------------------------------
PriceStatusNames == <<"Unknown", "Trading", "Halted", "Auction">>

CorpActionNames == <<"NoCorpAct">>

PriceTypeNames == <<"Unknown", "Price">>

AccountTypeNames == <<"Unknown", "Mapping", "Product", "Price">>

\* mutant: a discriminant out of range wraps round to a variant
try_from_primitive_wrapping(names, u) == Ok(names[(u[1] % Len(names)) + 1])

\* num_enum try_from_primitive: the variant with that discriminant, or Err
try_from_primitive(names, u) ==
  IF u[2] = 0 /\ u[1] < Len(names) THEN Ok(names[u[1] + 1]) ELSE Err("TryFromPrimitiveError")

\* num_enum into primitive (`as u32`): the discriminant of the variant
into_primitive(names, v) ==
  U32Of((CHOOSE k \in 1..Len(names) : names[k] = v) - 1)

\* ------------------------------------------------------------------------
\* state.rs: Ema
\* ------------------------------------------------------------------------
Ema_LEN == 24

EmaWidths == <<8, 8, 8>>

Ema_unpack_from_slice(src) ==
  IF Len(src) < Ema_LEN THEN Panic
  ELSE LET s == SubSeq(src, 1, Ema_LEN) IN
       Ok([val   |-> i64_from_le_bytes(array_refs(s, EmaWidths, 1)),
           numer |-> i64_from_le_bytes(array_refs(s, EmaWidths, 2)),
           denom |-> i64_from_le_bytes(array_refs(s, EmaWidths, 3))])

\* the LEN bytes Ema::pack_into_slice stores at dst[0..LEN)
Ema_bytes(x) ==
  i64_to_le_bytes(x.val) \o i64_to_le_bytes(x.numer) \o i64_to_le_bytes(x.denom)

Ema_pack_into_slice(x, dst) ==
  IF Len(dst) < Ema_LEN THEN [res |-> Panic, dst |-> dst]
  ELSE [res |-> Ok(<<>>), dst |-> Overwrite(dst, Ema_bytes(x))]

\* ------------------------------------------------------------------------
\* state.rs: PriceInfo
\* ------------------------------------------------------------------------
PriceInfo_LEN == 32

PriceInfoWidths == <<8, 8, 4, 4, 8>>

PriceInfo_unpack_from_slice(src) ==
  IF Len(src) < PriceInfo_LEN THEN Panic
  ELSE LET s == SubSeq(src, 1, PriceInfo_LEN)
           status == try_from_primitive(PriceStatusNames,
                        u32_from_le_bytes(array_refs(s, PriceInfoWidths, 3)))
           corp_act == try_from_primitive(CorpActionNames,
                        u32_from_le_bytes(array_refs(s, PriceInfoWidths, 4)))
       IN  IF status.tag # "Ok" \/ corp_act.tag # "Ok" THEN Panic \* .unwrap()
           ELSE Ok([price    |-> i64_from_le_bytes(array_refs(s, PriceInfoWidths, 1)),
                    conf     |-> u64_from_le_bytes(array_refs(s, PriceInfoWidths, 2)),
                    status   |-> status.val,
                    corp_act |-> corp_act.val,
                    pub_slot |-> u64_from_le_bytes(array_refs(s, PriceInfoWidths, 5))])

\* mutant: status and corporate action stored at each other's offset
PriceInfo_bytes_swapped(x) ==
  i64_to_le_bytes(x.price) \o u64_to_le_bytes(x.conf)
    \o u32_to_le_bytes(into_primitive(CorpActionNames, x.corp_act))
    \o u32_to_le_bytes(into_primitive(PriceStatusNames, x.status))
    \o u64_to_le_bytes(x.pub_slot)

PriceInfo_bytes(x) ==
  i64_to_le_bytes(x.price) \o u64_to_le_bytes(x.conf)
    \o u32_to_le_bytes(into_primitive(PriceStatusNames, x.status))
    \o u32_to_le_bytes(into_primitive(CorpActionNames, x.corp_act))
    \o u64_to_le_bytes(x.pub_slot)

PriceInfo_pack_into_slice(x, dst) ==
  IF Len(dst) < PriceInfo_LEN THEN [res |-> Panic, dst |-> dst]
  ELSE [res |-> Ok(<<>>), dst |-> Overwrite(dst, PriceInfo_bytes(x))]

\* ------------------------------------------------------------------------
\* state.rs: PriceComp
\* ------------------------------------------------------------------------
PriceComp_LEN == 96

PriceCompWidths == <<32, PriceInfo_LEN, PriceInfo_LEN>>

PriceComp_unpack_from_slice(src) ==
  IF Len(src) < PriceComp_LEN THEN Panic
  ELSE LET s == SubSeq(src, 1, PriceComp_LEN)
           agg == PriceInfo_unpack_from_slice(array_refs(s, PriceCompWidths, 2))
           latest == PriceInfo_unpack_from_slice(array_refs(s, PriceCompWidths, 3))
       IN  IF agg.tag # "Ok" THEN agg
           ELSE IF latest.tag # "Ok" THEN latest
           ELSE Ok([publisher |-> array_refs(s, PriceCompWidths, 1),
                    agg |-> agg.val, latest |-> latest.val])

PriceComp_bytes(x) ==
  x.publisher \o PriceInfo_bytes(x.agg) \o PriceInfo_bytes(x.latest)

PriceComp_pack_into_slice(x, dst) ==
  IF Len(dst) < PriceComp_LEN THEN [res |-> Panic, dst |-> dst]
  ELSE [res |-> Ok(<<>>), dst |-> Overwrite(dst, PriceComp_bytes(x))]

\* ------------------------------------------------------------------------
\* state.rs: Price
\* ------------------------------------------------------------------------
Price_LEN == 240

PriceWidths ==
  <<4, 4, 4, 4, 4, 4, 4, 4, 8, 8, Ema_LEN, Ema_LEN, 8, 8, 32, 32, 8, 8, 8, 8,
    PriceInfo_LEN>>

Price_unpack_from_slice(src) ==
  IF Len(src) < Price_LEN THEN Panic
  ELSE LET s == SubSeq(src, 1, Price_LEN)
           f(k) == array_refs(s, PriceWidths, k)
           ptype == try_from_primitive(PriceTypeNames, u32_from_le_bytes(f(5)))
           twap == Ema_unpack_from_slice(f(11))
           twac == Ema_unpack_from_slice(f(12))
           agg == PriceInfo_unpack_from_slice(f(21))
       IN  IF ptype.tag # "Ok" THEN Panic  \* .unwrap()
           ELSE IF twap.tag # "Ok" THEN twap
           ELSE IF twac.tag # "Ok" THEN twac
           ELSE IF agg.tag # "Ok" THEN agg
           ELSE Ok([magic      |-> u32_from_le_bytes(f(1)),
                    ver        |-> u32_from_le_bytes(f(2)),
                    atype      |-> u32_from_le_bytes(f(3)),
                    size       |-> u32_from_le_bytes(f(4)),
                    ptype      |-> ptype.val,
                    expo       |-> i32_from_le_bytes(f(6)),
                    num        |-> u32_from_le_bytes(f(7)),
                    num_qt     |-> u32_from_le_bytes(f(8)),
                    last_slot  |-> u64_from_le_bytes(f(9)),
                    valid_slot |-> u64_from_le_bytes(f(10)),
                    twap       |-> twap.val,
                    twac       |-> twac.val,
                    drv1       |-> i64_from_le_bytes(f(13)),
                    drv2       |-> i64_from_le_bytes(f(14)),
                    prod       |-> f(15),
                    next       |-> f(16),
                    prev_slot  |-> u64_from_le_bytes(f(17)),
                    prev_price |-> i64_from_le_bytes(f(18)),
                    prev_conf  |-> u64_from_le_bytes(f(19)),
                    drv3       |-> i64_from_le_bytes(f(20)),
                    agg        |-> agg.val])

\* mutant: the two account keys stored in the wrong order
Price_bytes_swapped(x) ==
  u32_to_le_bytes(x.magic) \o u32_to_le_bytes(x.ver)
    \o u32_to_le_bytes(x.atype) \o u32_to_le_bytes(x.size)
    \o u32_to_le_bytes(into_primitive(PriceTypeNames, x.ptype))
    \o i32_to_le_bytes(x.expo) \o u32_to_le_bytes(x.num)
    \o u32_to_le_bytes(x.num_qt)
    \o u64_to_le_bytes(x.last_slot) \o u64_to_le_bytes(x.valid_slot)
    \o Ema_bytes(x.twap) \o Ema_bytes(x.twac)
    \o i64_to_le_bytes(x.drv1) \o i64_to_le_bytes(x.drv2)
    \o x.next \o x.prod
    \o u64_to_le_bytes(x.prev_slot) \o i64_to_le_bytes(x.prev_price)
    \o u64_to_le_bytes(x.prev_conf) \o i64_to_le_bytes(x.drv3)
    \o PriceInfo_bytes(x.agg)

\* the LEN bytes Price::pack_into_slice stores at dst[0..LEN)
Price_bytes(x) ==
  u32_to_le_bytes(x.magic) \o u32_to_le_bytes(x.ver)
    \o u32_to_le_bytes(x.atype) \o u32_to_le_bytes(x.size)
    \o u32_to_le_bytes(into_primitive(PriceTypeNames, x.ptype))
    \o i32_to_le_bytes(x.expo) \o u32_to_le_bytes(x.num)
    \o u32_to_le_bytes(x.num_qt)
    \o u64_to_le_bytes(x.last_slot) \o u64_to_le_bytes(x.valid_slot)
    \o Ema_bytes(x.twap) \o Ema_bytes(x.twac)
    \o i64_to_le_bytes(x.drv1) \o i64_to_le_bytes(x.drv2)
    \o x.prod \o x.next
    \o u64_to_le_bytes(x.prev_slot) \o i64_to_le_bytes(x.prev_price)
    \o u64_to_le_bytes(x.prev_conf) \o i64_to_le_bytes(x.drv3)
    \o PriceInfo_bytes(x.agg)

Price_pack_into_slice(x, dst) ==
  IF Len(dst) < Price_LEN THEN [res |-> Panic, dst |-> dst]
  ELSE [res |-> Ok(<<>>), dst |-> Overwrite(dst, Price_bytes(x))]

\* ------------------------------------------------------------------------
\* instruction.rs: opcodes and payload records
\* ------------------------------------------------------------------------
\* mutant: PublishPrice and CreateMappingAccount numbered the other way round
PythInstructionIdNames_reordered ==
  <<"CreatePriceAccount", "CreateProductAccount", "PublishPrice",
    "CreateMappingAccount">>

PythInstructionIdNames ==
  <<"CreatePriceAccount", "CreateProductAccount", "CreateMappingAccount",
    "PublishPrice">>

\* PythInstructionId::try_from_primitive(u8)
PythInstructionId_try_from_primitive(b) ==
  IF b < Len(PythInstructionIdNames) THEN Ok(PythInstructionIdNames[b + 1])
  ELSE Err("TryFromPrimitiveError")

CreatePriceAccountInstruction_LEN == 0

CreatePriceAccountInstruction_unpack_from_slice(src) == Ok([name |-> "CreatePriceAccount"])

CreatePriceAccountInstruction_pack_into_slice(x, dst) == [res |-> Ok(<<>>), dst |-> dst]

CreateProductAccountInstruction_LEN == 0

CreateProductAccountInstruction_pack_into_slice(x, dst) == [res |-> Ok(<<>>), dst |-> dst]

CreateMappingAccountInstruction_LEN == 0

CreateMappingAccountInstruction_pack_into_slice(x, dst) == [res |-> Ok(<<>>), dst |-> dst]

CreateProductAccountInstruction_unpack_from_slice(src) == Ok([name |-> "CreateProductAccount"])

CreateMappingAccountInstruction_unpack_from_slice(src) == Ok([name |-> "CreateMappingAccount"])

PublishPriceInstruction_LEN == 12

PublishPriceInstructionWidths == <<8, 4>>

\* mutant: the price is read four bytes too far, over the decimal
PublishPriceInstruction_unpack_from_slice_shifted(src) ==
  IF Len(src) < PublishPriceInstruction_LEN THEN Panic
  ELSE LET s == SubSeq(src, 1, PublishPriceInstruction_LEN) IN
       Ok([price   |-> i64_from_le_bytes(SubSeq(s, 5, 12)),
           decimal |-> i32_from_le_bytes(array_refs(s, PublishPriceInstructionWidths, 2))])

PublishPriceInstruction_unpack_from_slice(src) ==
  IF Len(src) < PublishPriceInstruction_LEN THEN Panic
  ELSE LET s == SubSeq(src, 1, PublishPriceInstruction_LEN) IN
       Ok([price   |-> i64_from_le_bytes(array_refs(s, PublishPriceInstructionWidths, 1)),
           decimal |-> i32_from_le_bytes(array_refs(s, PublishPriceInstructionWidths, 2))])

\* mutant: the two fields stored in the other order
PublishPriceInstruction_bytes_swapped(x) ==
  i32_to_le_bytes(x.decimal) \o i64_to_le_bytes(x.price)

PublishPriceInstruction_bytes(x) ==
  i64_to_le_bytes(x.price) \o i32_to_le_bytes(x.decimal)

PublishPriceInstruction_pack_into_slice(x, dst) ==
  IF Len(dst) < PublishPriceInstruction_LEN THEN [res |-> Panic, dst |-> dst]
  ELSE [res |-> Ok(<<>>), dst |-> Overwrite(dst, PublishPriceInstruction_bytes(x))]

\* ------------------------------------------------------------------------
\* processor/create_price_account.rs
\* ------------------------------------------------------------------------
\* pyth_client::MAGIC = 0xa1b2c3d4, as a u32
MAGIC == <<195 * 256 + 212, 161 * 256 + 178>>

\* pyth_client::VERSION_2
VERSION_2 == U32Of(2)

\* the literal upper bound of the zeroing loop, and the size the harness
\* allocates for a price account
PriceAccountSize == 3312

\* mutant: every iteration stores bytes[0] (the index offset forgotten)
ForWrite_first_byte(st, lo, hi, bytes) ==
  IF st.panicked \/ lo >= hi THEN st
  ELSE IF hi <= Len(st.data)
    THEN [data |-> SubSeq(st.data, 1, lo) \o RepeatByte(bytes[1], hi - lo)
                     \o SubSeq(st.data, hi + 1, Len(st.data)),
          panicked |-> FALSE]
  ELSE IF lo < Len(st.data)
    THEN [data |-> SubSeq(st.data, 1, lo)
                     \o RepeatByte(bytes[1], Len(st.data) - lo),
          panicked |-> TRUE]
  ELSE [data |-> st.data, panicked |-> TRUE]

\* `for x in lo..hi { data[x] = bytes[x - lo]; }` on st = [data, panicked]:
\* the writes are made in index order and the first index outside the
\* buffer panics, keeping the writes already made
ForWrite(st, lo, hi, bytes) ==
  IF st.panicked \/ lo >= hi THEN st
  ELSE IF hi <= Len(st.data)
    THEN [data |-> SubSeq(st.data, 1, lo) \o bytes
                     \o SubSeq(st.data, hi + 1, Len(st.data)),
          panicked |-> FALSE]
  ELSE IF lo < Len(st.data)
    THEN [data |-> SubSeq(st.data, 1, lo) \o SubSeq(bytes, 1, Len(st.data) - lo),
          panicked |-> TRUE]
  ELSE [data |-> st.data, panicked |-> TRUE]

\* the bytes the zeroing loop `for x in 12..3312 { data[x] = 0; }` stores
ZeroFill == RepeatByte(0, PriceAccountSize - 12)

\* mutant: an account that already carries the magic number is refused
create_price_account_handle_guarded(accounts) ==
  IF Len(accounts) < 2
    THEN [res |-> Err(NotEnoughAccountKeys), accounts |-> accounts]
  ELSE IF Len(accounts[2]) >= 4 /\ SubSeq(accounts[2], 1, 4) = u32_to_le_bytes(MAGIC)
    THEN [res |-> Err(ProgramError_from(PythError.InvalidAccount)),
          accounts |-> accounts]
  ELSE
    LET data == accounts[2]
        s0 == [data |-> data, panicked |-> FALSE]
        s1 == ForWrite(s0, 0, 4, u32_to_le_bytes(MAGIC))
        s2 == ForWrite(s1, 4, 8, u32_to_le_bytes(VERSION_2))
        s3 == ForWrite(s2, 8, 12,
                u32_to_le_bytes(into_primitive(AccountTypeNames, "Price")))
        s4 == ForWrite(s3, 12, PriceAccountSize, ZeroFill)
        s5 == ForWrite(s4, 208, 216, i64_to_le_bytes(I64Of(0)))
        s6 == ForWrite(s5, 216, 224, u64_to_le_bytes(U64Of(100)))
        s7 == ForWrite(s6, 224, 228,
                u32_to_le_bytes(into_primitive(PriceStatusNames, "Trading")))
        s8 == ForWrite(s7, 228, 232,
                u32_to_le_bytes(into_primitive(CorpActionNames, "NoCorpAct")))
        s9 == ForWrite(s8, 232, 240, u64_to_le_bytes(U64Of(0)))
    IN  [res |-> IF s9.panicked THEN Panic ELSE Ok(<<>>),
         accounts |-> [accounts EXCEPT ![2] = s9.data]]

\* mutant: confidence and publish slot stored at each other's offset
create_price_account_handle_conf_at_slot(accounts) ==
  IF Len(accounts) < 2
    THEN [res |-> Err(NotEnoughAccountKeys), accounts |-> accounts]
  ELSE
    LET data == accounts[2]
        s0 == [data |-> data, panicked |-> FALSE]
        s1 == ForWrite(s0, 0, 4, u32_to_le_bytes(MAGIC))
        s2 == ForWrite(s1, 4, 8, u32_to_le_bytes(VERSION_2))
        s3 == ForWrite(s2, 8, 12,
                u32_to_le_bytes(into_primitive(AccountTypeNames, "Price")))
        s4 == ForWrite(s3, 12, PriceAccountSize, ZeroFill)
        s5 == ForWrite(s4, 208, 216, i64_to_le_bytes(I64Of(0)))
        s6 == ForWrite(s5, 216, 224, u64_to_le_bytes(U64Of(0)))
        s7 == ForWrite(s6, 224, 228,
                u32_to_le_bytes(into_primitive(PriceStatusNames, "Trading")))
        s8 == ForWrite(s7, 228, 232,
                u32_to_le_bytes(into_primitive(CorpActionNames, "NoCorpAct")))
        s9 == ForWrite(s8, 232, 240, u64_to_le_bytes(U64Of(100)))
    IN  [res |-> IF s9.panicked THEN Panic ELSE Ok(<<>>),
         accounts |-> [accounts EXCEPT ![2] = s9.data]]

create_price_account_handle(accounts) ==
  IF Len(accounts) < 2
    THEN [res |-> Err(NotEnoughAccountKeys), accounts |-> accounts]
  ELSE
    LET data == accounts[2]
        s0 == [data |-> data, panicked |-> FALSE]
        s1 == ForWrite(s0, 0, 4, u32_to_le_bytes(MAGIC))
        s2 == ForWrite(s1, 4, 8, u32_to_le_bytes(VERSION_2))
        s3 == ForWrite(s2, 8, 12,
                u32_to_le_bytes(into_primitive(AccountTypeNames, "Price")))
        s4 == ForWrite(s3, 12, PriceAccountSize, ZeroFill)
        s5 == ForWrite(s4, 208, 216, i64_to_le_bytes(I64Of(0)))
        s6 == ForWrite(s5, 216, 224, u64_to_le_bytes(U64Of(100)))
        s7 == ForWrite(s6, 224, 228,
                u32_to_le_bytes(into_primitive(PriceStatusNames, "Trading")))
        s8 == ForWrite(s7, 228, 232,
                u32_to_le_bytes(into_primitive(CorpActionNames, "NoCorpAct")))
        s9 == ForWrite(s8, 232, 240, u64_to_le_bytes(U64Of(0)))
    IN  [res |-> IF s9.panicked THEN Panic ELSE Ok(<<>>),
         accounts |-> [accounts EXCEPT ![2] = s9.data]]

\* ------------------------------------------------------------------------
\* processor/publish_price.rs
\* ------------------------------------------------------------------------
\* mutant: an account without the magic number is refused
publish_price_handle_magic_checked(accounts, pub_instr, clock_slot) ==
  IF Len(accounts) < 2
    THEN [res |-> Err(NotEnoughAccountKeys), accounts |-> accounts]
  ELSE
    LET price == pub_instr.price
        unpacked == Price_unpack_from_slice(accounts[2])
    IN  IF unpacked.tag # "Ok" THEN [res |-> unpacked, accounts |-> accounts]
        ELSE IF unpacked.val.magic # MAGIC
          THEN [res |-> Err(ProgramError_from(PythError.InvalidAccount)),
                accounts |-> accounts]
        ELSE
          LET price_struct ==
                [unpacked.val EXCEPT !.agg.price = price,
                                     !.agg.pub_slot = U64Of(clock_slot)]
              packed == Price_pack_into_slice(price_struct, accounts[2])
          IN  [res |-> packed.res,
               accounts |-> [accounts EXCEPT ![2] = packed.dst]]

\* mutant: publishing also resets the aggregate status
publish_price_handle_status_unknown(accounts, pub_instr, clock_slot) ==
  IF Len(accounts) < 2
    THEN [res |-> Err(NotEnoughAccountKeys), accounts |-> accounts]
  ELSE
    LET price == pub_instr.price
        unpacked == Price_unpack_from_slice(accounts[2])
    IN  IF unpacked.tag # "Ok" THEN [res |-> unpacked, accounts |-> accounts]
        ELSE
          LET price_struct ==
                [unpacked.val EXCEPT !.agg.price = price,
                                     !.agg.status = "Unknown",
                                     !.agg.pub_slot = U64Of(clock_slot)]
              packed == Price_pack_into_slice(price_struct, accounts[2])
          IN  [res |-> packed.res,
               accounts |-> [accounts EXCEPT ![2] = packed.dst]]

\* mutant: the accounts are indexed, not taken with next_account_info
publish_price_handle_indexed(accounts, pub_instr, clock_slot) ==
  IF Len(accounts) < 2
    THEN [res |-> Panic, accounts |-> accounts]
  ELSE
    LET price == pub_instr.price
        unpacked == Price_unpack_from_slice(accounts[2])
    IN  IF unpacked.tag # "Ok" THEN [res |-> unpacked, accounts |-> accounts]
        ELSE
          LET price_struct ==
                [unpacked.val EXCEPT !.agg.price = price,
                                     !.agg.pub_slot = U64Of(clock_slot)]
              packed == Price_pack_into_slice(price_struct, accounts[2])
          IN  [res |-> packed.res,
               accounts |-> [accounts EXCEPT ![2] = packed.dst]]

\* mutant: the publish slot is not stamped
publish_price_handle_no_slot(accounts, pub_instr, clock_slot) ==
  IF Len(accounts) < 2
    THEN [res |-> Err(NotEnoughAccountKeys), accounts |-> accounts]
  ELSE
    LET price == pub_instr.price
        unpacked == Price_unpack_from_slice(accounts[2])
    IN  IF unpacked.tag # "Ok" THEN [res |-> unpacked, accounts |-> accounts]
        ELSE
          LET price_struct == [unpacked.val EXCEPT !.agg.price = price]
              packed == Price_pack_into_slice(price_struct, accounts[2])
          IN  [res |-> packed.res,
               accounts |-> [accounts EXCEPT ![2] = packed.dst]]

publish_price_handle(accounts, pub_instr, clock_slot) ==
  IF Len(accounts) < 2
    THEN [res |-> Err(NotEnoughAccountKeys), accounts |-> accounts]
  ELSE
    LET price == pub_instr.price
        unpacked == Price_unpack_from_slice(accounts[2])
    IN  IF unpacked.tag # "Ok" THEN [res |-> unpacked, accounts |-> accounts]
        ELSE
          LET price_struct ==
                [unpacked.val EXCEPT !.agg.price = price,
                                     !.agg.pub_slot = U64Of(clock_slot)]
              packed == Price_pack_into_slice(price_struct, accounts[2])
          IN  [res |-> packed.res,
               accounts |-> [accounts EXCEPT ![2] = packed.dst]]

\* processor/create_product_account.rs, processor/create_mapping_account.rs
create_product_account_handle(accounts) == [res |-> Ok(<<>>), accounts |-> accounts]

\* mutant: the two accounts are required, as in the other handlers
create_mapping_account_handle_two_accounts(accounts) ==
  IF Len(accounts) < 2
    THEN [res |-> Err(NotEnoughAccountKeys), accounts |-> accounts]
  ELSE [res |-> Ok(<<>>), accounts |-> accounts]

create_mapping_account_handle(accounts) == [res |-> Ok(<<>>), accounts |-> accounts]

\* ------------------------------------------------------------------------
\* processor.rs: process
\* ------------------------------------------------------------------------
process(accounts, instruction_data, clock_slot) ==
  IF Len(instruction_data) = 0
    THEN [res |-> Err(ProgramError_from(PythError.CouldNotDecodeInstruction)),
          accounts |-> accounts]
  ELSE
    LET instruction_id == PythInstructionId_try_from_primitive(instruction_data[1])
        rest == SubSeq(instruction_data, 2, Len(instruction_data))
    IN  IF instruction_id.tag # "Ok"
          THEN [res |-> Panic, accounts |-> accounts]  \* .unwrap()
        ELSE IF instruction_id.val = "CreatePriceAccount"
          THEN create_price_account_handle(accounts)
        ELSE IF instruction_id.val = "PublishPrice"
          THEN LET unpacked_instruction == PublishPriceInstruction_unpack_from_slice(rest)
               IN  IF unpacked_instruction.tag # "Ok"
                     THEN [res |-> unpacked_instruction, accounts |-> accounts]
                   ELSE publish_price_handle(accounts, unpacked_instruction.val, clock_slot)
        ELSE IF instruction_id.val = "CreateProductAccount"
          THEN create_product_account_handle(accounts)
        ELSE create_mapping_account_handle(accounts)

\* an AccountInfo as the host hands it over
AccountInfo(data, owner, is_signer) ==
  [data |-> data, owner |-> owner, is_signer |-> is_signer]

\* mutant: the first account has to have signed
process_account_infos_signer_checked(infos, instruction_data, clock_slot) ==
  IF Len(infos) >= 1 /\ ~infos[1].is_signer
    THEN [res |-> Err([kind |-> "MissingRequiredSignature", code |-> 0]),
          accounts |-> infos]
  ELSE
    LET r == process([i \in 1..Len(infos) |-> infos[i].data],
                     instruction_data, clock_slot)
    IN  [res |-> r.res,
         accounts |-> [i \in 1..Len(infos) |->
                         [infos[i] EXCEPT !.data = r.accounts[i]]]]

\* process over the AccountInfo values: process and the handlers borrow the
\* `data` of an account and use no other field of it
process_account_infos(infos, instruction_data, clock_slot) ==
  LET r == process([i \in 1..Len(infos) |-> infos[i].data],
                   instruction_data, clock_slot)
  IN  [res |-> r.res,
       accounts |-> [i \in 1..Len(infos) |->
                       [infos[i] EXCEPT !.data = r.accounts[i]]]]

\* ------------------------------------------------------------------------
\* pack.rs: trait PythPack, over its implementations in state.rs and
\* instruction.rs (the type is named by a string)
\* ------------------------------------------------------------------------
RecordTypes == {"Ema", "PriceInfo", "PriceComp", "Price", "PublishPrice"}

\* T::LEN
LEN(t) ==
  CASE t = "Ema" -> Ema_LEN
    [] t = "PriceInfo" -> PriceInfo_LEN
    [] t = "PriceComp" -> PriceComp_LEN
    [] t = "Price" -> Price_LEN
    [] t = "PublishPrice" -> PublishPriceInstruction_LEN
    [] t = "CreatePriceAccount" -> CreatePriceAccountInstruction_LEN
    [] t = "CreateProductAccount" -> CreateProductAccountInstruction_LEN
    [] t = "CreateMappingAccount" -> CreateMappingAccountInstruction_LEN

\* T::unpack_from_slice
unpack_from_slice(t, src) ==
  CASE t = "Ema" -> Ema_unpack_from_slice(src)
    [] t = "PriceInfo" -> PriceInfo_unpack_from_slice(src)
    [] t = "PriceComp" -> PriceComp_unpack_from_slice(src)
    [] t = "Price" -> Price_unpack_from_slice(src)
    [] t = "PublishPrice" -> PublishPriceInstruction_unpack_from_slice(src)
    [] t = "CreatePriceAccount" -> CreatePriceAccountInstruction_unpack_from_slice(src)
    [] t = "CreateProductAccount" -> CreateProductAccountInstruction_unpack_from_slice(src)
    [] t = "CreateMappingAccount" -> CreateMappingAccountInstruction_unpack_from_slice(src)

\* T::pack_into_slice
pack_into_slice(t, x, dst) ==
  CASE t = "Ema" -> Ema_pack_into_slice(x, dst)
    [] t = "PriceInfo" -> PriceInfo_pack_into_slice(x, dst)
    [] t = "PriceComp" -> PriceComp_pack_into_slice(x, dst)
    [] t = "Price" -> Price_pack_into_slice(x, dst)
    [] t = "PublishPrice" -> PublishPriceInstruction_pack_into_slice(x, dst)
    [] t = "CreatePriceAccount" -> CreatePriceAccountInstruction_pack_into_slice(x, dst)
    [] t = "CreateProductAccount" -> CreateProductAccountInstruction_pack_into_slice(x, dst)
    [] t = "CreateMappingAccount" -> CreateMappingAccountInstruction_pack_into_slice(x, dst)

\* pack.rs: vec![0; LEN], pack_into_slice(self, &mut vec)?, Ok(vec)
pack_into_vec(t, x) ==
  LET packed == pack_into_slice(t, x, RepeatByte(0, LEN(t)))
  IN  IF packed.res.tag = "Ok" THEN Ok(packed.dst) ELSE packed.res

\* pack.rs: the loop of unpack_items_from_slice, `remaining` iterations left;
\* &src[start..end] panics when end is beyond the slice
RECURSIVE unpack_items_loop(_, _, _, _, _)
unpack_items_loop(t, remaining, src, start, result) ==
  IF remaining = 0 THEN Ok(result)
  ELSE LET end == start + LEN(t) IN
       IF end > Len(src) THEN Panic
       ELSE LET item == unpack_from_slice(t, SubSeq(src, start + 1, end)) IN
            IF item.tag # "Ok" THEN item
            ELSE unpack_items_loop(t, remaining - 1, src, end,
                                   Append(result, item.val))

\* mutant: the first record is skipped (start begins at LEN)
unpack_items_from_slice_skip_first(t, count, src) ==
  unpack_items_loop(t, count, src, LEN(t), <<>>)

\* T::unpack_items_from_slice(count, src)
unpack_items_from_slice(t, count, src) ==
  unpack_items_loop(t, count, src, 0, <<>>)

\* pack.rs: the loop of pack_items_into_slice over items[k..]
RECURSIVE pack_items_loop(_, _, _, _, _)
pack_items_loop(t, items, k, dst, start) ==
  IF k > Len(items) THEN [res |-> Ok(<<>>), dst |-> dst]
  ELSE LET end == start + LEN(t) IN
       IF end > Len(dst) THEN [res |-> Panic, dst |-> dst]
       ELSE LET packed == pack_into_slice(t, items[k], SubSeq(dst, start + 1, end))
                written == SubSeq(dst, 1, start) \o packed.dst
                             \o SubSeq(dst, end + 1, Len(dst))
            IN  IF packed.res.tag # "Ok" THEN [res |-> packed.res, dst |-> written]
                ELSE pack_items_loop(t, items, k + 1, written, end)

\* T::pack_items_into_slice(items, dst)
pack_items_into_slice(t, items, dst) == pack_items_loop(t, items, 1, dst, 0)

\* ------------------------------------------------------------------------
\* pack.rs: trait PythInstruction, over the four payload types
\* ------------------------------------------------------------------------
InstructionTypes ==
  {PythInstructionIdNames[k] : k \in 1..Len(PythInstructionIdNames)}

\* Self::ID.try_into().unwrap(): the opcode of payload type t as a u8
ID(t) == (CHOOSE k \in 1..Len(PythInstructionIdNames) :
            PythInstructionIdNames[k] = t) - 1

\* mutant: the opcode byte is not skipped before the payload is unpacked
unpack_instruction_no_skip(t, src) ==
  IF Len(src) = 0 THEN Panic
  ELSE IF src[1] # ID(t) THEN Err(PythError.NotImplemented)
  ELSE unpack_from_slice(t, src)

\* src[0] is read first (an empty src panics), then the payload is src[1..]
unpack_instruction(t, src) ==
  IF Len(src) = 0 THEN Panic
  ELSE IF src[1] # ID(t) THEN Err(PythError.NotImplemented)
  ELSE unpack_from_slice(t, SubSeq(src, 2, Len(src)))

\* dst[0] = opcode (an empty dst panics), then the payload into dst[1..]
pack_instruction(t, x, dst) ==
  IF Len(dst) = 0 THEN [res |-> Panic, dst |-> dst]
  ELSE LET packed == pack_into_slice(t, x, SubSeq(dst, 2, Len(dst)))
       IN  [res |-> packed.res, dst |-> <<ID(t)>> \o packed.dst]

\* vec![0; LEN + 1], opcode at [0], payload packed into [1..]
pack_instruction_into_vec(t, x) ==
  LET instr_data == RepeatByte(0, LEN(t) + 1)
      packed == pack_into_slice(t, x, SubSeq(instr_data, 2, Len(instr_data)))
  IN  IF packed.res.tag = "Ok" THEN Ok(<<ID(t)>> \o packed.dst)
      ELSE packed.res

\* ------------------------------------------------------------------------
\* instruction.rs: the builders create_price_acc and publish_price
\* ------------------------------------------------------------------------
\* AccountMeta::new_readonly(pubkey, is_signer)
AccountMeta_new_readonly(pubkey, is_signer) ==
  [pubkey |-> pubkey, is_signer |-> is_signer, is_writable |-> FALSE]

\* AccountMeta::new(pubkey, is_signer)
AccountMeta_new(pubkey, is_signer) ==
  [pubkey |-> pubkey, is_signer |-> is_signer, is_writable |-> TRUE]

\* mutant: the two account references in the other order
create_price_acc_swapped(program_id, payer, acct_pkey) ==
  LET data == pack_instruction_into_vec("CreatePriceAccount",
                                        [name |-> "CreatePriceAccount"])
  IN  IF data.tag # "Ok" THEN data
      ELSE Ok([program_id |-> program_id,
               data |-> data.val,
               accounts |-> <<AccountMeta_new(acct_pkey, FALSE),
                              AccountMeta_new_readonly(payer, TRUE)>>])

create_price_acc(program_id, payer, acct_pkey) ==
  LET data == pack_instruction_into_vec("CreatePriceAccount",
                                        [name |-> "CreatePriceAccount"])
  IN  IF data.tag # "Ok" THEN data
      ELSE Ok([program_id |-> program_id,
               data |-> data.val,
               accounts |-> <<AccountMeta_new_readonly(payer, TRUE),
                              AccountMeta_new(acct_pkey, FALSE)>>])

publish_price(program_id, payer, acct_pkey, price, decimal) ==
  LET data == pack_instruction_into_vec("PublishPrice",
                                        [price |-> price, decimal |-> decimal])
  IN  IF data.tag # "Ok" THEN data
      ELSE Ok([program_id |-> program_id,
               data |-> data.val,
               accounts |-> <<AccountMeta_new_readonly(payer, TRUE),
                              AccountMeta_new(acct_pkey, FALSE)>>])

\* the instruction data of the two builders
create_price_acc_data == create_price_acc("pyth", "payer", "acct").val.data

publish_price_data(price, decimal) ==
  publish_price("pyth", "payer", "acct", price, decimal).val.data

\* ------------------------------------------------------------------------
\* Bounds and input sets
\* ------------------------------------------------------------------------
\* the host clock runs from 0 to MaxSlot
MaxSlot == 1

\* i64::MIN and i64::MAX
I64_MIN == <<0, 0, 0, 0 - HalfLimb>>

I64_MAX == <<Limb - 1, Limb - 1, Limb - 1, HalfLimb - 1>>

\* (price, decimal) payloads of the PublishPrice instructions submitted
PublishInputs ==
  {<<I64Of(15), <<0, 0>>>>, <<I64Of(15), <<Limb - 2, 0 - 1>>>>,
   <<I64_MIN, <<0, 0>>>>}

\* instruction data the host may submit
InstrData ==
  {<<>>, create_price_acc_data, <<1>>, <<2, 7>>, <<3>>,
   <<3, 15, 0, 0, 0, 0, 0, 0, 0>>, <<99>>}
  \cup {publish_price_data(x[1], x[2]) : x \in PublishInputs}

\* store the u32 `v` at offset off of buf, where it fits
WithU32(buf, off, v) ==
  IF Len(buf) < off + 4 THEN buf
  ELSE SubSeq(buf, 1, off) \o u32_to_le_bytes(v) \o SubSeq(buf, off + 5, Len(buf))

\* buffer contents an account may hold before the program first sees it
Zeros(n) == RepeatByte(0, n)

Ones(n) == WithU32(WithU32(WithU32(RepeatByte(255, n), 16, U32Of(1)),
                           224, U32Of(3)), 228, U32Of(0))

Mixed(n) ==
  WithU32(WithU32(WithU32([i \in 1..n |-> ((i - 1) * 37 + 200) % 256],
                          16, U32Of(0)), 224, U32Of(2)), 228, U32Of(0))

\* the target buffers the host may hand over: well-formed records of
\* several lengths, and records with an out-of-range tag
TargetInits ==
  {Zeros(0), Zeros(239), Zeros(PriceAccountSize),
   Mixed(10), Mixed(Price_LEN), Mixed(PriceAccountSize),
   Mixed(PriceAccountSize + 8), Ones(300),
   WithU32(Mixed(Price_LEN), 224, U32Of(4)),
   WithU32(Ones(Price_LEN), 224, <<1, 1>>),
   WithU32(Mixed(PriceAccountSize), 228, U32Of(1)),
   WithU32(Mixed(300), 16, U32Of(2))}

PayerInits == {<<7, 7, 7>>}

\* ------------------------------------------------------------------------
\* State
\* ------------------------------------------------------------------------
VARIABLES
  accounts,   \* the host's account buffers: <<funding account, target account>>
  slot,       \* the host clock's current slot
  result,     \* outcome of the last invocation of process ("None" before any)
  pre,        \* the account buffers when the last invocation started
  call,       \* the last invocation: [data, nacc, slot]
  phase,      \* history of the target: "raw", "created", "published"
  codec       \* the codec exercise: [type, stage, x, bytes, back]

vars == <<accounts, slot, result, pre, call, phase, codec>>

NoCodec == [type |-> "none", stage |-> "idle"]

NoCall == [data |-> <<>>, nacc |-> 0, slot |-> 0]

Init ==
  /\ accounts \in {<<p, t>> : p \in PayerInits, t \in TargetInits}
  /\ slot = 0
  /\ result = [tag |-> "None"]
  /\ pre = accounts
  /\ call = NoCall
  /\ phase = "raw"
  /\ codec = NoCodec

\* the opcode an invocation ran, "" when it did not get as far as a handler
Opcode(data) == IF Len(data) = 0 THEN 255 ELSE data[1]

\* the host invokes process with the first nacc of its accounts
\* mutant: the handlers work on the buffers as the previous invocation found them
Invoke_stale(data, nacc) ==
  \E r \in {process(SubSeq(pre, 1, nacc), data, slot)} :
      /\ accounts' = r.accounts \o SubSeq(accounts, nacc + 1, Len(accounts))
      /\ result' = r.res
      /\ pre' = accounts
      /\ call' = [data |-> data, nacc |-> nacc, slot |-> slot]
      /\ phase' = IF Opcode(data) = 0 /\ nacc >= 2
                    THEN (IF r.res.tag = "Ok" THEN "created" ELSE "raw")
                  ELSE IF Opcode(data) = 3 /\ r.res.tag = "Ok" /\ phase # "raw"
                    THEN "published"
                  ELSE phase
      /\ UNCHANGED <<slot, codec>>

Invoke(data, nacc) ==
  \E r \in {process(SubSeq(accounts, 1, nacc), data, slot)} :
      /\ accounts' = r.accounts \o SubSeq(accounts, nacc + 1, Len(accounts))
      /\ result' = r.res
      /\ pre' = accounts
      /\ call' = [data |-> data, nacc |-> nacc, slot |-> slot]
      /\ phase' = IF Opcode(data) = 0 /\ nacc >= 2
                    THEN (IF r.res.tag = "Ok" THEN "created" ELSE "raw")
                  ELSE IF Opcode(data) = 3 /\ r.res.tag = "Ok" /\ phase # "raw"
                    THEN "published"
                  ELSE phase
      /\ UNCHANGED <<slot, codec>>

Process == \E data \in InstrData, nacc \in 0..2 : Invoke(data, nacc)

\* the host clock advances
Tick ==
  /\ slot < MaxSlot
  /\ slot' = slot + 1
  /\ UNCHANGED <<accounts, result, pre, call, phase, codec>>

Next == Process \/ Tick

Spec == Init /\ [][Next]_vars

\* ------------------------------------------------------------------------
\* The codec on its own: inputs and steps
\* ------------------------------------------------------------------------
\* values of the field types
I64Vals == {I64Of(0), I64Of(15), I64Of(0 - 1), I64_MIN, I64_MAX}

U64Vals == {U64Of(100), <<Limb - 1, Limb - 1, Limb - 1, Limb - 1>>}

I32Vals == {<<0, 0>>, <<Limb - 2, 0 - 1>>, <<0, 0 - HalfLimb>>,
            <<Limb - 1, HalfLimb - 1>>}

U32Vals == {U32Of(0), <<Limb - 1, Limb - 1>>}

AccKeys == {RepeatByte(0, 32), [i \in 1..32 |-> 7 * i + 30]}

PriceStatuses == {PriceStatusNames[k] : k \in 1..Len(PriceStatusNames)}

PriceTypes == {PriceTypeNames[k] : k \in 1..Len(PriceTypeNames)}

EmaVals == [val : I64Vals, numer : {I64Of(0), I64_MIN}, denom : {I64Of(0 - 1), I64_MAX}]

PriceInfoVals ==
  [price : I64Vals, conf : U64Vals, status : PriceStatuses,
   corp_act : {"NoCorpAct"}, pub_slot : {U64Of(7)}]

SomePriceInfos ==
  [price : {I64_MIN, I64Of(15)}, conf : {U64Of(100)},
   status : {"Halted", "Auction"}, corp_act : {"NoCorpAct"},
   pub_slot : {<<Limb - 1, Limb - 1, Limb - 1, Limb - 1>>}]

PriceCompVals == [publisher : AccKeys, agg : SomePriceInfos, latest : SomePriceInfos]

PriceVals ==
  [magic : {MAGIC}, ver : {VERSION_2}, atype : {U32Of(3)}, size : U32Vals,
   ptype : PriceTypes, expo : {<<Limb - 2, 0 - 1>>, <<0, 0 - HalfLimb>>},
   num : {U32Of(1)}, num_qt : {U32Of(2)}, last_slot : {U64Of(3)},
   valid_slot : {U64Of(4)},
   twap : {[val |-> I64Of(5), numer |-> I64_MIN, denom |-> I64Of(0 - 1)]},
   twac : {[val |-> I64_MAX, numer |-> I64Of(6), denom |-> I64Of(0)]},
   drv1 : {I64Of(0 - 8)}, drv2 : {I64Of(9)}, prod : AccKeys,
   next : {[i \in 1..32 |-> 255 - i]}, prev_slot : {U64Of(10)},
   prev_price : {I64Of(0 - 11), I64_MAX}, prev_conf : {U64Of(12)},
   drv3 : {I64Of(13)}, agg : SomePriceInfos]

PublishPriceVals == [price : I64Vals, decimal : I32Vals]

ValuesOf(t) ==
  CASE t = "Ema" -> EmaVals
    [] t = "PriceInfo" -> PriceInfoVals
    [] t = "PriceComp" -> PriceCompVals
    [] t = "Price" -> PriceVals
    [] t = "PublishPrice" -> PublishPriceVals

\* a record value is chosen; Pack encodes it and Unpack decodes the bytes
CodecInit ==
  /\ accounts = <<<<>>, <<>>>>
  /\ slot = 0
  /\ result = [tag |-> "None"]
  /\ pre = accounts
  /\ call = NoCall
  /\ phase = "raw"
  /\ \E t \in RecordTypes : \E x \in ValuesOf(t) :
       codec = [type |-> t, stage |-> "value", x |-> x]

Pack ==
  /\ codec.stage = "value"
  /\ codec' = [type |-> codec.type, stage |-> "packed", x |-> codec.x,
               bytes |-> pack_into_vec(codec.type, codec.x)]
  /\ UNCHANGED <<accounts, slot, result, pre, call, phase>>

\* destination buffers of at least LEN bytes, with contents of their own
Pattern(n, k) == [i \in 1..n |-> (k * i + 1) % 256]

Dsts(t) == {RepeatByte(255, LEN(t)), Pattern(LEN(t) + 5, 7), Pattern(LEN(t) + 5, 11)}

\* x.pack_into_slice(dst) into a caller buffer
PackIntoSlice ==
  /\ codec.stage = "value"
  /\ \E dst \in Dsts(codec.type) :
       codec' = [type |-> codec.type, stage |-> "packed_into", x |-> codec.x,
                 dst |-> dst,
                 out |-> pack_into_slice(codec.type, codec.x, dst)]
  /\ UNCHANGED <<accounts, slot, result, pre, call, phase>>

Unpack ==
  /\ codec.stage = "packed"
  /\ codec.bytes.tag = "Ok"
  /\ codec' = [type |-> codec.type, stage |-> "unpacked", x |-> codec.x,
               bytes |-> codec.bytes,
               back |-> unpack_from_slice(codec.type, codec.bytes.val)]
  /\ UNCHANGED <<accounts, slot, result, pre, call, phase>>

CodecNext == Pack \/ PackIntoSlice \/ Unpack

CodecSpec == CodecInit /\ [][CodecNext]_vars

\* ------------------------------------------------------------------------
\* Decoding buffers that come from elsewhere: inputs and steps
\* ------------------------------------------------------------------------
\* buf with its price-type, status and corporate-action tags put in range
InRangeTags(t, buf, st) ==
  CASE t = "PriceInfo" ->
         WithU32(WithU32(buf, 16, U32Of(st)), 20, U32Of(0))
    [] t = "PriceComp" ->
         WithU32(WithU32(WithU32(WithU32(buf, 48, U32Of(st)), 52, U32Of(0)),
                         80, U32Of((st + 1) % 4)), 84, U32Of(0))
    [] t = "Price" ->
         WithU32(WithU32(WithU32(buf, 16, U32Of(st % 2)), 224, U32Of(st)),
                 228, U32Of(0))
    [] OTHER -> buf

\* buffers of LEN bytes and more, with tags in and out of range, and one
\* buffer a byte short
RawRecords(t) ==
  LET base == {Pattern(LEN(t) + k, m) : k \in {0, 3}, m \in {7, 11, 255}}
  IN  base \cup {InRangeTags(t, b, st) : b \in base, st \in 0..3}
           \cup {RepeatByte(0, LEN(t) - 1)}

Tails == {<<>>, <<1>>, <<255, 0, 9>>}

DecodeInit ==
  /\ accounts = <<<<>>, <<>>>>
  /\ slot = 0
  /\ result = [tag |-> "None"]
  /\ pre = accounts
  /\ call = NoCall
  /\ phase = "raw"
  /\ \E t \in RecordTypes : \E b \in RawRecords(t) :
       codec = [type |-> t, stage |-> "raw", bytes |-> b]

\* T::unpack_from_slice(bytes)
Decode ==
  /\ codec.stage = "raw"
  /\ codec' = [type |-> codec.type, stage |-> "decoded", bytes |-> codec.bytes,
               back |-> unpack_from_slice(codec.type, codec.bytes)]
  /\ UNCHANGED <<accounts, slot, result, pre, call, phase>>

\* the unpacked value, packed again with pack_into_vec
Repack ==
  /\ codec.stage = "decoded"
  /\ codec.back.tag = "Ok"
  /\ codec' = [type |-> codec.type, stage |-> "repacked", bytes |-> codec.bytes,
               back |-> codec.back,
               again |-> pack_into_vec(codec.type, codec.back.val)]
  /\ UNCHANGED <<accounts, slot, result, pre, call, phase>>

\* T::unpack_from_slice of the same first LEN bytes followed by other bytes
DecodeOtherTail ==
  /\ codec.stage = "decoded"
  /\ Len(codec.bytes) >= LEN(codec.type)
  /\ \E tail \in Tails :
       codec' = [type |-> codec.type, stage |-> "decoded_other",
                 bytes |-> codec.bytes, back |-> codec.back, tail |-> tail,
                 other |-> unpack_from_slice(codec.type,
                             SubSeq(codec.bytes, 1, LEN(codec.type)) \o tail)]
  /\ UNCHANGED <<accounts, slot, result, pre, call, phase>>

DecodeNext == Decode \/ Repack \/ DecodeOtherTail

DecodeSpec == DecodeInit /\ [][DecodeNext]_vars

\* ------------------------------------------------------------------------
\* The error codes on their own: inputs and steps
\* ------------------------------------------------------------------------
FailureKinds == DOMAIN PythError

\* source lines as u32, below and from 2^24 on
Lines ==
  {<<lo, hi>> : lo \in {0, 1, 5, 39, Limb - 1}, hi \in {0, 1, 255, 256, Limb - 1}}

FileIds == {0, 1, 2, 127, 128, 255}

ErrorInit ==
  /\ accounts = <<<<>>, <<>>>>
  /\ slot = 0
  /\ result = [tag |-> "None"]
  /\ pre = accounts
  /\ call = NoCall
  /\ phase = "raw"
  /\ \/ \E k \in FailureKinds :
          codec = [type |-> "PythError", stage |-> "kind", kind |-> k]
     \/ \E line \in Lines, file_id \in FileIds, val \in BOOLEAN :
          codec = [type |-> "err_at", stage |-> "args", line |-> line,
                   file_id |-> file_id, val |-> val]

\* ProgramError::from(kind)
Into ==
  /\ codec.stage = "kind"
  /\ codec' = [type |-> "PythError", stage |-> "converted", kind |-> codec.kind,
               out |-> ProgramError_from(PythError[codec.kind])]
  /\ UNCHANGED <<accounts, slot, result, pre, call, phase>>

\* err_at(line, file_id): an overflowing sum panics or wraps
ErrAt ==
  /\ codec.stage = "args"
  /\ \E code \in {err_at(codec.line, codec.file_id)} :
     \E out \in {Ok(code.val)} \cup (IF code.overflow THEN {Panic} ELSE {}) :
       codec' = [type |-> "err_at", stage |-> "located", line |-> codec.line,
                 file_id |-> codec.file_id, val |-> codec.val, out |-> out]
  /\ UNCHANGED <<accounts, slot, result, pre, call, phase>>

\* assert_or_err!(val, file_id) at line `line`
AssertOrErr ==
  /\ codec.stage = "args"
  /\ \E out \in assert_or_err(codec.val, codec.file_id, codec.line) :
       codec' = [type |-> "err_at", stage |-> "asserted", line |-> codec.line,
                 file_id |-> codec.file_id, val |-> codec.val, out |-> out]
  /\ UNCHANGED <<accounts, slot, result, pre, call, phase>>

ErrorNext == Into \/ ErrAt \/ AssertOrErr

ErrorSpec == ErrorInit /\ [][ErrorNext]_vars

\* ------------------------------------------------------------------------
\* The bulk codec on its own: inputs and steps
\* ------------------------------------------------------------------------
MaxItems == 2

\* two values of each record type
BulkValuesOf(t) ==
  CASE t = "Ema" ->
         [val : {I64Of(15), I64_MIN}, numer : {I64Of(0)}, denom : {I64_MAX}]
    [] t = "PriceInfo" ->
         [price : {I64Of(15), I64_MIN}, conf : {U64Of(100)},
          status : {"Auction"}, corp_act : {"NoCorpAct"}, pub_slot : {U64Of(7)}]
    [] t = "PriceComp" ->
         {x \in PriceCompVals :
            /\ x.agg.price = I64_MIN /\ x.agg.status = "Halted"
            /\ x.latest.price = I64Of(15) /\ x.latest.status = "Auction"}
    [] t = "Price" ->
         {x \in PriceVals :
            /\ x.size = U32Of(0) /\ x.ptype = "Price"
            /\ x.expo = <<Limb - 2, 0 - 1>> /\ x.prod = RepeatByte(0, 32)
            /\ x.prev_price = I64_MAX /\ x.agg.status = "Halted"}
    [] t = "PublishPrice" ->
         [price : {I64Of(15), I64_MIN}, decimal : {<<Limb - 2, 0 - 1>>}]

ItemLists(t) == UNION {[1..n -> BulkValuesOf(t)] : n \in 0..MaxItems}

\* caller buffers that hold the items, exactly or with room to spare
BulkDsts(t, n) == {RepeatByte(255, n * LEN(t)), Pattern(n * LEN(t) + 3, 7)}

\* buffers handed to unpack_items_from_slice: packed records and one more byte
BulkSrcs(t) ==
  {<<>>} \cup
  {pack_items_into_slice(t, items, RepeatByte(0, Len(items) * LEN(t))).dst \o <<9>> :
     items \in ItemLists(t)}

BulkInit ==
  /\ accounts = <<<<>>, <<>>>>
  /\ slot = 0
  /\ result = [tag |-> "None"]
  /\ pre = accounts
  /\ call = NoCall
  /\ phase = "raw"
  /\ \E t \in RecordTypes :
       \/ \E items \in ItemLists(t) : \E dst \in BulkDsts(t, Len(items)) :
            codec = [type |-> t, stage |-> "items", items |-> items, dst |-> dst]
       \/ \E count \in 0..MaxItems : \E src \in BulkSrcs(t) :
            codec = [type |-> t, stage |-> "raw_items", count |-> count, src |-> src]

\* T::pack_items_into_slice(items, dst)
PackItems ==
  /\ codec.stage = "items"
  /\ codec' = [type |-> codec.type, stage |-> "packed_items",
               items |-> codec.items, dst |-> codec.dst,
               out |-> pack_items_into_slice(codec.type, codec.items, codec.dst)]
  /\ UNCHANGED <<accounts, slot, result, pre, call, phase>>

\* T::unpack_items_from_slice(items.len(), packed)
UnpackItems ==
  /\ codec.stage = "packed_items"
  /\ codec.out.res.tag = "Ok"
  /\ codec' = [type |-> codec.type, stage |-> "unpacked_items",
               items |-> codec.items, dst |-> codec.dst, out |-> codec.out,
               back |-> unpack_items_from_slice(codec.type, Len(codec.items),
                                                codec.out.dst)]
  /\ UNCHANGED <<accounts, slot, result, pre, call, phase>>

\* T::unpack_items_from_slice(count, src) of a buffer from elsewhere
UnpackRawItems ==
  /\ codec.stage = "raw_items"
  /\ codec' = [type |-> codec.type, stage |-> "decoded_items",
               count |-> codec.count, src |-> codec.src,
               back |-> unpack_items_from_slice(codec.type, codec.count, codec.src)]
  /\ UNCHANGED <<accounts, slot, result, pre, call, phase>>

BulkNext == PackItems \/ UnpackItems \/ UnpackRawItems

BulkSpec == BulkInit /\ [][BulkNext]_vars

\* ------------------------------------------------------------------------
\* The instruction codec on its own: inputs and steps
\* ------------------------------------------------------------------------
InstructionValuesOf(t) ==
  IF t = "PublishPrice" THEN PublishPriceVals ELSE {[name |-> t]}

\* buffers handed to unpack_instruction
RawInstructions ==
  {<<>>, <<0>>, <<1>>, <<2>>, <<3>>, <<4>>, <<99>>, <<2, 7>>,
   <<3, 15, 0, 0, 0, 0, 0, 0, 0>>,
   <<3, 15, 0, 0, 0, 0, 0, 0, 128, 254, 255, 255, 255>>,
   <<3, 1, 2, 3, 4, 5, 6, 7, 8, 9, 10, 11, 255, 13, 14>>,
   <<0, 1, 2, 3, 4, 5, 6, 7, 8, 9, 10, 11, 12>>}

\* caller buffers handed to pack_instruction, at least LEN + 1 bytes long
InstructionDsts(t) ==
  {RepeatByte(255, LEN(t) + 1), [i \in 1..(LEN(t) + 4) |-> 100 + i]}

ProgramIds == {"pyth", "other"}

BuilderArgs ==
  [builder : {"create_price_acc"}, program_id : ProgramIds,
   payer : {"payer", "acct"}, acct_pkey : {"acct"}]
  \cup [builder : {"publish_price"}, program_id : ProgramIds,
        payer : {"payer", "acct"}, acct_pkey : {"acct"},
        price : {I64Of(15), I64_MIN}, decimal : {<<0, 0>>, <<Limb - 2, 0 - 1>>}]

InstructionInit ==
  /\ accounts = <<<<>>, <<>>>>
  /\ slot = 0
  /\ result = [tag |-> "None"]
  /\ pre = accounts
  /\ call = NoCall
  /\ phase = "raw"
  /\ \/ \E t \in InstructionTypes : \E x \in InstructionValuesOf(t) :
          codec = [type |-> t, stage |-> "value", x |-> x]
     \/ \E t \in InstructionTypes : \E b \in RawInstructions :
          codec = [type |-> t, stage |-> "raw", bytes |-> b]
     \/ \E a \in BuilderArgs :
          codec = [type |-> "builder", stage |-> "args", args |-> a]

\* x.pack_instruction_into_vec()
PackInstructionIntoVec ==
  /\ codec.stage = "value"
  /\ codec' = [type |-> codec.type, stage |-> "packed", x |-> codec.x,
               bytes |-> pack_instruction_into_vec(codec.type, codec.x)]
  /\ UNCHANGED <<accounts, slot, result, pre, call, phase>>

\* x.pack_instruction(dst) into a caller buffer
PackInstruction ==
  /\ codec.stage = "value"
  /\ \E dst \in InstructionDsts(codec.type) :
       codec' = [type |-> codec.type, stage |-> "packed_into", x |-> codec.x,
                 dst |-> dst,
                 out |-> pack_instruction(codec.type, codec.x, dst)]
  /\ UNCHANGED <<accounts, slot, result, pre, call, phase>>

\* T::unpack_instruction of the packed vector
UnpackPacked ==
  /\ codec.stage = "packed"
  /\ codec.bytes.tag = "Ok"
  /\ codec' = [type |-> codec.type, stage |-> "unpacked", x |-> codec.x,
               bytes |-> codec.bytes,
               back |-> unpack_instruction(codec.type, codec.bytes.val)]
  /\ UNCHANGED <<accounts, slot, result, pre, call, phase>>

\* T::unpack_instruction of a buffer from elsewhere
UnpackRaw ==
  /\ codec.stage = "raw"
  /\ codec' = [type |-> codec.type, stage |-> "decoded",
               bytes |-> codec.bytes,
               back |-> unpack_instruction(codec.type, codec.bytes)]
  /\ UNCHANGED <<accounts, slot, result, pre, call, phase>>

\* create_price_acc(..) / publish_price(..)
Build ==
  /\ codec.stage = "args"
  /\ codec' = [type |-> "builder", stage |-> "built", args |-> codec.args,
               instr |->
                 IF codec.args.builder = "create_price_acc"
                   THEN create_price_acc(codec.args.program_id,
                          codec.args.payer, codec.args.acct_pkey)
                   ELSE publish_price(codec.args.program_id,
                          codec.args.payer, codec.args.acct_pkey,
                          codec.args.price, codec.args.decimal)]
  /\ UNCHANGED <<accounts, slot, result, pre, call, phase>>

InstructionNext ==
  PackInstructionIntoVec \/ PackInstruction \/ UnpackPacked \/ UnpackRaw \/ Build

InstructionSpec == InstructionInit /\ [][InstructionNext]_vars

TypeOK ==
  /\ Len(accounts) = 2
  /\ \A a \in 1..2 : \A i \in 1..Len(accounts[a]) : accounts[a][i] \in Byte
  /\ slot \in 0..MaxSlot
  /\ result.tag \in {"None", "Ok", "Err", "Panic"}

\* ------------------------------------------------------------------------
\* Properties of the dispatcher and its handlers
\* ------------------------------------------------------------------------
target == accounts[2]

\* an invocation has happened and it ran opcode op
Ran(op) == result.tag # "None" /\ Opcode(call.data) = op

\* the target bytes outside aggregate.price and aggregate.publishSlot
OutsidePriceAndSlot(buf) ==
  <<SubSeq(buf, 1, 208), SubSeq(buf, 217, 232), SubSeq(buf, 241, Len(buf))>>

\* C1: a successful PublishPrice with price P at slot S stores P in bytes
\* 208..216 and S in bytes 232..240 of the target and leaves every other
\* byte of the target, below and above offset 240, as it was.
C1_PublishFrame ==
  (Ran(3) /\ result.tag = "Ok") =>
    /\ Len(target) = Len(pre[2])
    /\ OutsidePriceAndSlot(target) = OutsidePriceAndSlot(pre[2])
    /\ \E x \in PublishInputs :
         /\ call.data = publish_price_data(x[1], x[2])
         /\ SubSeq(target, 209, 216) = i64_to_le_bytes(x[1])
    /\ SubSeq(target, 233, 240) = u64_to_le_bytes(U64Of(call.slot))

C1_Witness ==
  /\ Ran(3) /\ result.tag = "Ok"
  /\ pre[2] = Mixed(PriceAccountSize + 8)
  /\ call.data = publish_price_data(I64_MIN, <<0, 0>>)
  /\ call.slot = 1
  /\ target # pre[2]

\* the record CreatePriceAccount is to leave in the account
CreatedPrice ==
  [magic |-> MAGIC, ver |-> VERSION_2, atype |-> U32Of(3), size |-> U32Of(0),
   ptype |-> "Unknown", expo |-> <<0, 0>>, num |-> U32Of(0),
   num_qt |-> U32Of(0), last_slot |-> U64Of(0), valid_slot |-> U64Of(0),
   twap |-> [val |-> I64Of(0), numer |-> I64Of(0), denom |-> I64Of(0)],
   twac |-> [val |-> I64Of(0), numer |-> I64Of(0), denom |-> I64Of(0)],
   drv1 |-> I64Of(0), drv2 |-> I64Of(0),
   prod |-> RepeatByte(0, 32), next |-> RepeatByte(0, 32),
   prev_slot |-> U64Of(0), prev_price |-> I64Of(0), prev_conf |-> U64Of(0),
   drv3 |-> I64Of(0),
   agg |-> [price |-> I64Of(0), conf |-> U64Of(100), status |-> "Trading",
            corp_act |-> "NoCorpAct", pub_slot |-> U64Of(0)]]

\* C2: CreatePriceAccount on a zero-filled buffer of 3312 bytes succeeds and
\* leaves the Price codec's packing of the created record in bytes 0..240,
\* followed by zeros; the record decodes back from the buffer.
C2_CreatePostcondition ==
  (Ran(0) /\ call.nacc = 2 /\ pre[2] = Zeros(PriceAccountSize)) =>
    /\ result = Ok(<<>>)
    /\ target = Price_bytes(CreatedPrice) \o Zeros(PriceAccountSize - Price_LEN)
    /\ Price_unpack_from_slice(target) = Ok(CreatedPrice)

C2_Witness ==
  /\ Ran(0) /\ call.nacc = 2 /\ pre[2] = Zeros(PriceAccountSize)
  /\ result.tag = "Ok" /\ target # pre[2]

\* C3: right after CreatePriceAccount the decoded aggregate price is 0 and the
\* status Trading; after CreatePriceAccount and then one or more successful
\* PublishPrice, the decoded aggregate carries the price and the slot of the
\* last publish and the status is still Trading.
C3_CreateThenPublish ==
  LET d == Price_unpack_from_slice(target) IN
  /\ phase = "created" =>
       /\ d.tag = "Ok"
       /\ d.val.agg.price = I64Of(0)
       /\ d.val.agg.status = "Trading"
  /\ phase = "published" =>
       /\ d.tag = "Ok"
       /\ d.val.agg.status = "Trading"
  /\ (phase = "published" /\ Ran(3) /\ result.tag = "Ok") =>
       \E x \in PublishInputs :
         /\ call.data = publish_price_data(x[1], x[2])
         /\ d.val.agg.price = x[1]
         /\ d.val.agg.pub_slot = U64Of(call.slot)

C3_Witness ==
  /\ phase = "published" /\ Ran(3) /\ result.tag = "Ok"
  /\ call.slot = 1
  /\ Price_unpack_from_slice(target).val.agg.price = I64Of(15)
  /\ Price_unpack_from_slice(pre[2]).val.agg.price = I64_MIN

\* C4: instruction data whose first byte is not an opcode makes process
\* return a typed failure, without abnormal termination, accounts unchanged.
C4_UndefinedOpcode ==
  (result.tag # "None" /\ Len(call.data) > 0 /\ call.data[1] \notin 0..3) =>
    /\ result.tag = "Err"
    /\ accounts = pre

\* C5: an invocation that does not return success leaves every account
\* buffer as it was.
C5_NoPartialMutation ==
  result.tag \in {"Err", "Panic"} => accounts = pre

\* C6: empty instruction data returns CouldNotDecodeInstruction (custom
\* code 1) for any account list and leaves every account buffer unchanged.
C6_EmptyData ==
  (result.tag # "None" /\ call.data = <<>>) =>
    /\ result = [tag |-> "Err", err |-> [kind |-> "Custom", code |-> 1]]
    /\ accounts = pre

C6_Witness ==
  /\ result.tag = "Err" /\ call.data = <<>> /\ call.nacc = 2
  /\ Len(pre[2]) = PriceAccountSize

\* C7: for every record type and every value x of it, packing x into a fresh
\* vector and unpacking the vector succeeds and returns x, negative and
\* extreme integers and every enum tag included.
C7_RoundTrip ==
  /\ codec.stage = "packed" => codec.bytes.tag = "Ok"
  /\ codec.stage = "unpacked" => codec.back = Ok(codec.x)

C7_Witness ==
  /\ codec.stage = "unpacked" /\ codec.type = "Price"
  /\ codec.back.tag = "Ok"
  /\ codec.back.val.agg.price = I64_MIN
  /\ codec.back.val.expo = <<0, 0 - HalfLimb>>
  /\ codec.back.val.ptype = "Price"
  /\ codec.back.val.agg.status = "Auction"

\* C8: PublishPrice with fewer than 12 payload bytes, or against a target
\* shorter than 240 bytes, returns a typed failure rather than aborting.
C8_ShortBuffersTyped ==
  (/\ Ran(3)
   /\ \/ Len(call.data) < 1 + PublishPriceInstruction_LEN
      \/ call.nacc = 2 /\ Len(pre[2]) < Price_LEN) =>
    result.tag = "Err"

\* the u32 tag stored at offset off
TagAt(buf, off) == u32_from_le_bytes(SubSeq(buf, off + 1, off + 4))

\* a 240-byte record with a price-type, status or corporate-action tag
\* outside its enumeration
HasBadTag(buf) ==
  \/ TagAt(buf, 16) \notin {U32Of(0), U32Of(1)}
  \/ TagAt(buf, 224) \notin {U32Of(0), U32Of(1), U32Of(2), U32Of(3)}
  \/ TagAt(buf, 228) # U32Of(0)

\* C9: PublishPrice on an account holding an out-of-range tag returns a
\* typed failure and leaves the buffer unchanged.
C9_BadTagTyped ==
  (/\ Ran(3) /\ call.nacc = 2
   /\ Len(call.data) >= 1 + PublishPriceInstruction_LEN
   /\ Len(pre[2]) >= Price_LEN /\ HasBadTag(pre[2])) =>
    /\ result.tag = "Err"
    /\ accounts = pre

\* C10: for a target of any length n >= 240 and any contents,
\* CreatePriceAccount succeeds and every byte at 240..n-1 is zero afterwards.
C10_ZeroBeyondRecord ==
  (Ran(0) /\ call.nacc = 2 /\ Len(pre[2]) >= Price_LEN) =>
    /\ result.tag = "Ok"
    /\ SubSeq(target, Price_LEN + 1, Len(target))
         = Zeros(Len(target) - Price_LEN)

\* the opcode the wire format gives each payload type
WireOpcode ==
  [CreatePriceAccount |-> 0, CreateProductAccount |-> 1,
   CreateMappingAccount |-> 2, PublishPrice |-> 3]

\* C11: for each of the four payload types and every value x, unpacking the
\* packed instruction succeeds and returns x, and the first encoded byte is
\* the type's opcode.
C11_OpcodeFidelity ==
  /\ codec.stage = "packed" =>
       /\ codec.bytes.tag = "Ok"
       /\ codec.bytes.val[1] = WireOpcode[codec.type]
  /\ codec.stage = "unpacked" => codec.back = Ok(codec.x)

C11_Witness ==
  /\ codec.stage = "unpacked" /\ codec.type = "PublishPrice"
  /\ codec.back.tag = "Ok"
  /\ codec.back.val = [price |-> I64_MIN, decimal |-> <<Limb - 2, 0 - 1>>]
  /\ codec.bytes.val[1] = 3

\* C12: unpack_instruction on a buffer whose first byte is absent or is not
\* the type's opcode returns NotImplemented without aborting; when the first
\* byte is the opcode the result is unpack_from_slice of the rest.
C12_OpcodeCheck ==
  codec.stage = "decoded" =>
    IF Len(codec.bytes) = 0 \/ codec.bytes[1] # WireOpcode[codec.type]
      THEN codec.back = [tag |-> "Err", err |-> 0]
      ELSE codec.back =
             unpack_from_slice(codec.type, SubSeq(codec.bytes, 2, Len(codec.bytes)))

\* the payload bytes the wire format prescribes for x
WirePayload(t, x) ==
  IF t = "PublishPrice"
    THEN i64_to_le_bytes(x.price) \o i32_to_le_bytes(x.decimal)
    ELSE <<>>

\* C13: pack_instruction_into_vec returns LEN + 1 bytes (1 for the Create
\* instructions, 13 for PublishPrice): the opcode, then the packed payload
\* (price in 8 little-endian bytes, decimal in 4); pack_instruction into a
\* caller buffer of at least that length writes the same bytes.
C13_EncodeLayout ==
  /\ codec.stage = "packed" =>
       /\ codec.bytes.tag = "Ok"
       /\ Len(codec.bytes.val) = LEN(codec.type) + 1
       /\ Len(codec.bytes.val) = IF codec.type = "PublishPrice" THEN 13 ELSE 1
       /\ codec.bytes.val =
            <<WireOpcode[codec.type]>> \o WirePayload(codec.type, codec.x)
  /\ codec.stage = "packed_into" =>
       /\ codec.out.res.tag = "Ok"
       /\ Len(codec.out.dst) = Len(codec.dst)
       /\ SubSeq(codec.out.dst, 1, LEN(codec.type) + 1) =
            <<WireOpcode[codec.type]>> \o WirePayload(codec.type, codec.x)

C13_Witness ==
  /\ codec.stage = "packed_into" /\ codec.type = "PublishPrice"
  /\ codec.x = [price |-> I64Of(15), decimal |-> <<Limb - 2, 0 - 1>>]
  /\ Len(codec.dst) = 16
  /\ SubSeq(codec.out.dst, 1, 13) =
       <<3, 15, 0, 0, 0, 0, 0, 0, 0, 254, 255, 255, 255>>

\* C17: the builders return an instruction with the given program id, the
\* two account references [funding key: signer, read-only; target key:
\* non-signer, writable] in that order, and the encoded payload as data.
C17_Builders ==
  codec.stage = "built" =>
    /\ codec.instr.tag = "Ok"
    /\ codec.instr.val.program_id = codec.args.program_id
    /\ codec.instr.val.accounts =
         <<[pubkey |-> codec.args.payer, is_signer |-> TRUE,
            is_writable |-> FALSE],
           [pubkey |-> codec.args.acct_pkey, is_signer |-> FALSE,
            is_writable |-> TRUE]>>
    /\ codec.instr.val.data =
         IF codec.args.builder = "create_price_acc" THEN <<0>>
         ELSE <<3>> \o i64_to_le_bytes(codec.args.price)
                \o i32_to_le_bytes(codec.args.decimal)

C17_Witness ==
  /\ codec.stage = "built" /\ codec.args.builder = "publish_price"
  /\ codec.args.program_id = "other" /\ codec.args.payer = "payer"
  /\ codec.instr.val.data =
       <<3, 15, 0, 0, 0, 0, 0, 0, 0, 254, 255, 255, 255>>

\* the accounts the last invocation was given, and what it made of them
Given == SubSeq(pre, 1, call.nacc)

Outcome == [res |-> result, accounts |-> SubSeq(accounts, 1, call.nacc)]

\* C14: process routes on data[0]: 0 runs the CreatePriceAccount handler,
\* 1 CreateProductAccount, 2 CreateMappingAccount, 3 PublishPrice with the
\* payload decoded from data[1..13]; the data built by create_price_acc and
\* by publish_price(P, D) has the effect of CreatePriceAccount and of
\* PublishPrice with price P at the slot of the call.
C14_DispatchRouting ==
  (result.tag # "None" /\ Len(call.data) > 0) =>
    /\ call.data[1] = 0 => Outcome = create_price_account_handle(Given)
    /\ call.data[1] = 1 => Outcome = create_product_account_handle(Given)
    /\ call.data[1] = 2 => Outcome = create_mapping_account_handle(Given)
    /\ (call.data[1] = 3 /\ Len(call.data) >= 13) =>
         Outcome = publish_price_handle(Given,
                     [price   |-> i64_from_le_bytes(SubSeq(call.data, 2, 9)),
                      decimal |-> i32_from_le_bytes(SubSeq(call.data, 10, 13))],
                     call.slot)
    /\ call.data = create_price_acc("pyth", "payer", "acct").val.data =>
         Outcome = create_price_account_handle(Given)
    /\ \A x \in PublishInputs :
         call.data = publish_price("pyth", "payer", "acct", x[1], x[2]).val.data =>
           /\ Outcome = publish_price_handle(Given,
                          [price |-> x[1], decimal |-> x[2]], call.slot)
           /\ (call.nacc = 2 /\ Price_unpack_from_slice(pre[2]).tag = "Ok") =>
                /\ result = Ok(<<>>)
                /\ SubSeq(target, 209, 216) = i64_to_le_bytes(x[1])

C14_Witness ==
  /\ result = Ok(<<>>) /\ call.nacc = 2
  /\ call.data = <<3, 0, 0, 0, 0, 0, 0, 0, 128, 0, 0, 0, 0>>
  /\ call.data = publish_price("pyth", "payer", "acct", I64_MIN, <<0, 0>>).val.data
  /\ pre[2] = Price_bytes(CreatedPrice) \o Zeros(PriceAccountSize - Price_LEN)
  /\ SubSeq(target, 209, 216) = <<0, 0, 0, 0, 0, 0, 0, 128>>

\* C15: process with data[0] = 1 or 2 returns success for any account list
\* and any trailing bytes, and leaves every account buffer as it was.
C15_AcceptedNoOps ==
  (result.tag # "None" /\ Len(call.data) > 0 /\ call.data[1] \in {1, 2}) =>
    /\ result = Ok(<<>>)
    /\ accounts = pre

C15_Witness ==
  /\ result = Ok(<<>>) /\ call.data = <<2, 7>> /\ call.nacc = 0
  /\ Len(pre[2]) = 10 /\ accounts = pre

\* C16: PublishPrice with the same price and any other decimal, on the same
\* accounts at the same slot, gives the same result and the same buffers,
\* and a successful PublishPrice keeps bytes 20..24 (the exponent) of the
\* target.
C16_DecimalIgnored ==
  \A x \in PublishInputs :
    (result.tag # "None" /\ call.data = publish_price_data(x[1], x[2])) =>
      /\ \A d \in I32Vals :
           process(Given, publish_price_data(x[1], d), call.slot) = Outcome
      /\ result.tag = "Ok" => SubSeq(target, 21, 24) = SubSeq(pre[2], 21, 24)

C16_Witness ==
  /\ result = Ok(<<>>) /\ call.nacc = 2
  /\ call.data = publish_price_data(I64Of(15), <<Limb - 2, 0 - 1>>)
  /\ pre[2] = Mixed(PriceAccountSize)
  /\ SubSeq(target, 21, 24) = SubSeq(Mixed(PriceAccountSize), 21, 24)
  /\ SubSeq(target, 21, 24) # <<254, 255, 255, 255>>
  /\ target # pre[2]

\* aggregate.publishSlot as stored in a buffer
PubSlot(buf) == u64_from_le_bytes(SubSeq(buf, 233, 240))

\* a <= b for u64
U64Leq(a, b) ==
  \/ a = b
  \/ \E k \in 1..4 : /\ a[k] < b[k]
                     /\ \A j \in (k + 1)..4 : a[j] = b[j]

\* C20: with a clock that never goes back, in every state reached after
\* CreatePriceAccount by PublishPrice invocations only, aggregate.publishSlot
\* is at most the current slot, and it does not decrease from one invocation
\* to the next.
C20_PublishSlotFollowsClock ==
  /\ [](phase \in {"created", "published"} =>
          U64Leq(PubSlot(target), U64Of(slot)))
  /\ [][(phase \in {"created", "published"} /\ phase' = "published") =>
          U64Leq(PubSlot(target), PubSlot(target'))]_vars

C20_Witness ==
  /\ phase = "published" /\ Ran(3) /\ result.tag = "Ok"
  /\ slot = 1
  /\ PubSlot(target) = U64Of(1)
  /\ PubSlot(pre[2]) = U64Of(0)
  /\ Price_unpack_from_slice(pre[2]).val.agg.price = I64Of(15)

\* the record lengths of the account layout and of the publish payload
WireLen ==
  [Ema |-> 24, PriceInfo |-> 32, PriceComp |-> 96, Price |-> 240,
   PublishPrice |-> 12]

\* C18: pack_into_slice into any destination of at least LEN bytes succeeds,
\* leaves in the first LEN bytes what packing x into a fresh vector gives
\* (whatever the destination held), and leaves every byte from LEN on as it
\* was; pack_into_vec(x) has exactly LEN bytes.
C18_PackWritesExactlyLen ==
  /\ codec.stage = "packed" =>
       /\ codec.bytes.tag = "Ok"
       /\ Len(codec.bytes.val) = LEN(codec.type)
       /\ Len(codec.bytes.val) = WireLen[codec.type]
  /\ codec.stage = "packed_into" =>
       /\ codec.out.res = Ok(<<>>)
       /\ Len(codec.out.dst) = Len(codec.dst)
       /\ SubSeq(codec.out.dst, 1, LEN(codec.type)) =
            pack_into_vec(codec.type, codec.x).val
       /\ SubSeq(codec.out.dst, LEN(codec.type) + 1, Len(codec.dst)) =
            SubSeq(codec.dst, LEN(codec.type) + 1, Len(codec.dst))

C18_Witness ==
  /\ codec.stage = "packed_into" /\ codec.type = "PriceInfo"
  /\ codec.x.price = I64_MIN /\ codec.x.status = "Halted"
  /\ codec.dst = Pattern(37, 11)
  /\ SubSeq(codec.out.dst, 1, 8) = <<0, 0, 0, 0, 0, 0, 0, 128>>
  /\ SubSeq(codec.out.dst, 33, 37) = <<108, 119, 130, 141, 152>>

\* the i-th record-sized slice of a buffer, i from 1
ItemSlice(t, buf, i) == SubSeq(buf, (i - 1) * LEN(t) + 1, i * LEN(t))

\* C19: pack_items_into_slice writes item i at dst[i*LEN .. (i+1)*LEN) and
\* touches no other byte; unpack_items_from_slice(count, src) returns count
\* records, record i being the unpacking of src[i*LEN .. (i+1)*LEN);
\* unpacking len(items) records from the packed buffer returns items; with
\* count = 0 the result is the empty list for any src.
C19_BulkCodec ==
  LET t == codec.type IN
  /\ codec.stage = "packed_items" =>
       /\ codec.out.res = Ok(<<>>)
       /\ Len(codec.out.dst) = Len(codec.dst)
       /\ \A i \in 1..Len(codec.items) :
            ItemSlice(t, codec.out.dst, i) = pack_into_vec(t, codec.items[i]).val
       /\ SubSeq(codec.out.dst, Len(codec.items) * LEN(t) + 1, Len(codec.dst)) =
            SubSeq(codec.dst, Len(codec.items) * LEN(t) + 1, Len(codec.dst))
  /\ codec.stage = "unpacked_items" => codec.back = Ok(codec.items)
  /\ codec.stage = "decoded_items" =>
       /\ codec.count = 0 => codec.back = Ok(<<>>)
       /\ (/\ codec.count * LEN(t) <= Len(codec.src)
           /\ \A i \in 1..codec.count :
                unpack_from_slice(t, ItemSlice(t, codec.src, i)).tag = "Ok") =>
            /\ codec.back.tag = "Ok"
            /\ Len(codec.back.val) = codec.count
            /\ \A i \in 1..codec.count :
                 codec.back.val[i] =
                   unpack_from_slice(t, ItemSlice(t, codec.src, i)).val

C19_Witness ==
  /\ codec.stage = "unpacked_items" /\ codec.type = "PriceInfo"
  /\ Len(codec.items) = 2
  /\ codec.items[1].price = I64Of(15) /\ codec.items[2].price = I64_MIN
  /\ Len(codec.dst) = 67
  /\ codec.back.tag = "Ok" /\ Len(codec.back.val) = 2
  /\ codec.back.val[2].price = I64_MIN
  /\ SubSeq(codec.out.dst, 33, 40) = <<0, 0, 0, 0, 0, 0, 0, 128>>


C22_TooFewAccounts ==
  (/\ result.tag # "None" /\ call.nacc < 2 /\ Len(call.data) > 0
   /\ \/ call.data[1] = 0
      \/ call.data[1] = 3 /\ Len(call.data) >= 1 + PublishPriceInstruction_LEN) =>
    /\ result = [tag |-> "Err", err |-> [kind |-> "NotEnoughAccountKeys", code |-> 0]]
    /\ accounts = pre

C22_Witness ==
  /\ result.tag = "Err" /\ call.nacc = 1
  /\ call.data = publish_price_data(I64Of(15), <<0, 0>>)
  /\ Len(pre[2]) = PriceAccountSize /\ accounts = pre


\* the code the host sees for each failure kind
KindCode ==
  [NotImplemented |-> 0, CouldNotDecodeInstruction |-> 1,
   InvalidInstructionId |-> 2, InvalidAccount |-> 3,
   InvalidRequestStatus |-> 4, InvalidSeeds |-> 5]

\* C23: the six failure kinds have the codes 0..5 in declaration order,
\* pairwise distinct, and converting a kind to the host's error gives the
\* custom error carrying exactly that code.
C23_FailureCodes ==
  /\ DOMAIN PythError = DOMAIN KindCode
  /\ \A k \in DOMAIN KindCode : PythError[k] = KindCode[k]
  /\ \A a, b \in FailureKinds : a # b => PythError[a] # PythError[b]
  /\ codec.stage = "converted" =>
       codec.out = [kind |-> "Custom", code |-> KindCode[codec.kind]]

C23_Witness ==
  /\ codec.stage = "converted" /\ codec.kind = "InvalidSeeds"
  /\ codec.out = [kind |-> "Custom", code |-> 5]

\* line < 2^24
SmallLine(line) == line[2] < 256

\* C26: for line < 2^24 and file_id in 0..255, err_at does not overflow, its
\* high byte is file_id and its low 24 bits are line, so it is injective
\* there; assert_or_err gives Ok on a true condition and otherwise the
\* custom error carrying err_at(line, file_id), which for file_id >= 1 is
\* none of the failure-kind codes 0..5.
C26_LocationCode ==
  /\ (codec.stage = "located" /\ SmallLine(codec.line)) =>
       /\ codec.out.tag = "Ok"
       /\ codec.out.val[2] \div 256 = codec.file_id
       /\ codec.out.val[2] % 256 = codec.line[2]
       /\ codec.out.val[1] = codec.line[1]
       /\ \A l \in Lines, f \in FileIds :
            (SmallLine(l) /\ err_at(l, f).val = codec.out.val) =>
              (l = codec.line /\ f = codec.file_id)
  /\ (codec.stage = "asserted" /\ codec.val) => codec.out = Ok(<<>>)
  /\ (codec.stage = "asserted" /\ ~codec.val /\ SmallLine(codec.line)) =>
       /\ codec.out.tag = "Err"
       /\ codec.out.err.kind = "Custom"
       /\ codec.out.err.code =
            <<codec.line[1], codec.file_id * 256 + codec.line[2]>>
       /\ codec.file_id >= 1 =>
            \A k \in FailureKinds : codec.out.err.code # U32Of(PythError[k])

C26_Witness ==
  /\ codec.stage = "asserted" /\ ~codec.val
  /\ codec.line = <<Limb - 1, 255>> /\ codec.file_id = 255
  /\ codec.out = [tag |-> "Err",
                  err |-> [kind |-> "Custom", code |-> <<Limb - 1, Limb - 1>>]]


\* the `width` bytes of buf from offset off
FieldAt(buf, off, width) == SubSeq(buf, off + 1, off + width)

\* the layout of a PriceInfo in b: fields at 0, 8, 16, 20, 24
PriceInfoLaidOut(b, x) ==
  /\ FieldAt(b, 0, 8) = i64_to_le_bytes(x.price)
  /\ FieldAt(b, 8, 8) = u64_to_le_bytes(x.conf)
  /\ FieldAt(b, 16, 4) = u32_to_le_bytes(into_primitive(PriceStatusNames, x.status))
  /\ FieldAt(b, 20, 4) = u32_to_le_bytes(into_primitive(CorpActionNames, x.corp_act))
  /\ FieldAt(b, 24, 8) = u64_to_le_bytes(x.pub_slot)

\* the layout of an Ema in b: fields at 0, 8, 16
EmaLaidOut(b, x) ==
  /\ FieldAt(b, 0, 8) = i64_to_le_bytes(x.val)
  /\ FieldAt(b, 8, 8) = i64_to_le_bytes(x.numer)
  /\ FieldAt(b, 16, 8) = i64_to_le_bytes(x.denom)

\* the layout of a Price in b, fields in declaration order
PriceLaidOut(b, x) ==
  /\ FieldAt(b, 0, 4) = u32_to_le_bytes(x.magic)
  /\ FieldAt(b, 4, 4) = u32_to_le_bytes(x.ver)
  /\ FieldAt(b, 8, 4) = u32_to_le_bytes(x.atype)
  /\ FieldAt(b, 12, 4) = u32_to_le_bytes(x.size)
  /\ FieldAt(b, 16, 4) = u32_to_le_bytes(into_primitive(PriceTypeNames, x.ptype))
  /\ FieldAt(b, 20, 4) = i32_to_le_bytes(x.expo)
  /\ FieldAt(b, 24, 4) = u32_to_le_bytes(x.num)
  /\ FieldAt(b, 28, 4) = u32_to_le_bytes(x.num_qt)
  /\ FieldAt(b, 32, 8) = u64_to_le_bytes(x.last_slot)
  /\ FieldAt(b, 40, 8) = u64_to_le_bytes(x.valid_slot)
  /\ EmaLaidOut(FieldAt(b, 48, 24), x.twap)
  /\ EmaLaidOut(FieldAt(b, 72, 24), x.twac)
  /\ FieldAt(b, 96, 8) = i64_to_le_bytes(x.drv1)
  /\ FieldAt(b, 104, 8) = i64_to_le_bytes(x.drv2)
  /\ FieldAt(b, 112, 32) = x.prod
  /\ FieldAt(b, 144, 32) = x.next
  /\ FieldAt(b, 176, 8) = u64_to_le_bytes(x.prev_slot)
  /\ FieldAt(b, 184, 8) = i64_to_le_bytes(x.prev_price)
  /\ FieldAt(b, 192, 8) = u64_to_le_bytes(x.prev_conf)
  /\ FieldAt(b, 200, 8) = i64_to_le_bytes(x.drv3)
  /\ PriceInfoLaidOut(FieldAt(b, 208, 32), x.agg)

LaidOut(t, b, x) ==
  CASE t = "Ema" -> EmaLaidOut(b, x)
    [] t = "PriceInfo" -> PriceInfoLaidOut(b, x)
    [] t = "PriceComp" ->
         /\ FieldAt(b, 0, 32) = x.publisher
         /\ PriceInfoLaidOut(FieldAt(b, 32, 32), x.agg)
         /\ PriceInfoLaidOut(FieldAt(b, 64, 32), x.latest)
    [] t = "Price" -> PriceLaidOut(b, x)
    [] t = "PublishPrice" ->
         /\ FieldAt(b, 0, 8) = i64_to_le_bytes(x.price)
         /\ FieldAt(b, 8, 4) = i32_to_le_bytes(x.decimal)

\* C24: each record's length is the sum of its field widths (24, 32, 96,
\* 240, 12); in Price the fields lie at fixed offsets in declaration order
\* (product at 112..144, next at 144..176, the aggregate at 208..240); pack
\* stores and unpack reads every field at the same offset.
C24_Layout ==
  /\ Ema_LEN = 8 + 8 + 8 /\ Ema_LEN = SumTo(EmaWidths, Len(EmaWidths))
  /\ PriceInfo_LEN = 8 + 8 + 4 + 4 + 8
  /\ PriceInfo_LEN = SumTo(PriceInfoWidths, Len(PriceInfoWidths))
  /\ PriceComp_LEN = 32 + 32 + 32
  /\ PriceComp_LEN = SumTo(PriceCompWidths, Len(PriceCompWidths))
  /\ Price_LEN = 240 /\ Price_LEN = SumTo(PriceWidths, Len(PriceWidths))
  /\ PublishPriceInstruction_LEN = 8 + 4
  /\ PublishPriceInstruction_LEN =
       SumTo(PublishPriceInstructionWidths, Len(PublishPriceInstructionWidths))
  /\ SumTo(PriceWidths, 14) = 112 /\ SumTo(PriceWidths, 15) = 144
  /\ SumTo(PriceWidths, 16) = 176 /\ SumTo(PriceWidths, 20) = 208
  /\ codec.stage = "packed" =>
       /\ codec.bytes.tag = "Ok"
       /\ Len(codec.bytes.val) = WireLen[codec.type]
       /\ LaidOut(codec.type, codec.bytes.val, codec.x)
  /\ codec.stage = "unpacked" =>
       /\ codec.back.tag = "Ok"
       /\ LaidOut(codec.type, codec.bytes.val, codec.back.val)

C24_Witness ==
  /\ codec.stage = "unpacked" /\ codec.type = "Price"
  /\ codec.back.tag = "Ok"
  /\ FieldAt(codec.bytes.val, 112, 32) = [i \in 1..32 |-> 7 * i + 30]
  /\ codec.back.val.prod = [i \in 1..32 |-> 7 * i + 30]
  /\ FieldAt(codec.bytes.val, 144, 32) = [i \in 1..32 |-> 255 - i]
  /\ FieldAt(codec.bytes.val, 208, 8) = <<0, 0, 0, 0, 0, 0, 0, 128>>
  /\ FieldAt(codec.bytes.val, 224, 4) = <<3, 0, 0, 0>>
  /\ codec.back.val.agg.status = "Auction"


\* other contents, owners and signer flags the funding account could have
FundingInfos ==
  {AccountInfo(d, o, s) : d \in {<<>>, <<1, 2, 3, 4>>},
                          o \in {"pyth", "system"}, s \in BOOLEAN}

C27_CreatedInvariant ==
  (phase \in {"created", "published"} /\ Len(target) = 3312) =>
    /\ \A d \in {Price_unpack_from_slice(SubSeq(target, 1, 240))} :
         /\ d.tag = "Ok"
         /\ d.val.magic = <<50132, 41394>>
         /\ d.val.ver = <<2, 0>>
         /\ d.val.atype = <<3, 0>>
         /\ d.val.ptype = "Unknown"
         /\ d.val.agg.conf = <<100, 0, 0, 0>>
         /\ d.val.agg.status = "Trading"
         /\ d.val.agg.corp_act = "NoCorpAct"
    /\ SubSeq(target, 241, 3312) = [i \in 1..3072 |-> 0]
    /\ (/\ result.tag # "None" /\ call.nacc = 2
        /\ Len(call.data) >= 13 /\ call.data[1] = 3) =>
         result = Ok(<<>>)

C27_Witness ==
  /\ phase = "published" /\ Len(target) = 3312
  /\ result = [tag |-> "Panic"] /\ call.data = <<99>>
  /\ slot = 1
  /\ Price_unpack_from_slice(target).val.agg.price = I64_MIN
  /\ Price_unpack_from_slice(target).val.agg.pub_slot = U64Of(0)


\* C28: for every record type and every buffer of at least LEN bytes that
\* unpacks, packing the unpacked value gives back the first LEN bytes of
\* the buffer, and the unpacked value is the same whatever bytes follow
\* the first LEN.
C28_CanonicalEncoding ==
  /\ codec.stage = "repacked" =>
       /\ codec.again.tag = "Ok"
       /\ codec.again.val = SubSeq(codec.bytes, 1, WireLen[codec.type])
  /\ codec.stage = "decoded_other" => codec.other = codec.back

C28_Witness ==
  /\ codec.stage = "repacked" /\ codec.type = "Price"
  /\ Len(codec.bytes) = 243
  /\ codec.back.val.agg.status = "Auction" /\ codec.back.val.ptype = "Price"
  /\ codec.again.val = SubSeq(codec.bytes, 1, 240)
  /\ codec.bytes[1] = 8 /\ codec.bytes[240] = 145


\* C29: CreatePriceAccount on a target of 3312 bytes succeeds and leaves
\* the same 3312 bytes whatever the buffer held, so a second create changes
\* nothing; on an account carrying a published price it succeeds and puts
\* aggregate.price and publishSlot back to 0.
C29_CreateResets ==
  (result.tag # "None" /\ call.data = <<0>> /\ call.nacc = 2
   /\ Len(pre[2]) = 3312) =>
    /\ result = Ok(<<>>)
    /\ target = Price_bytes(CreatedPrice) \o [i \in 1..3072 |-> 0]
    /\ \A r \in {process(accounts, <<0>>, slot)} :
         r.res = Ok(<<>>) /\ r.accounts = accounts
    /\ FieldAt(target, 208, 8) = <<0, 0, 0, 0, 0, 0, 0, 0>>
    /\ FieldAt(target, 232, 8) = <<0, 0, 0, 0, 0, 0, 0, 0>>

C29_Witness ==
  /\ result = Ok(<<>>) /\ call.data = <<0>> /\ call.nacc = 2
  /\ Len(pre[2]) = 3312 /\ phase = "created"
  /\ FieldAt(pre[2], 0, 4) = <<212, 195, 178, 161>>
  /\ FieldAt(pre[2], 208, 8) = <<0, 0, 0, 0, 0, 0, 0, 128>>
  /\ FieldAt(pre[2], 232, 8) = <<1, 0, 0, 0, 0, 0, 0, 0>>
  /\ FieldAt(target, 208, 8) = <<0, 0, 0, 0, 0, 0, 0, 0>>

\* C30: PublishPrice on any target of at least 240 bytes whose price-type,
\* status and corporate-action tags are in range succeeds, whatever magic,
\* version and account type it holds; on a zero-filled buffer that was
\* never created it leaves magic 0, status Unknown, the price and the slot
\* of the call.
C30_PublishWithoutCreate ==
  (/\ result.tag # "None" /\ call.nacc = 2
   /\ Len(call.data) >= 13 /\ call.data[1] = 3
   /\ Len(pre[2]) >= 240 /\ ~HasBadTag(pre[2])) =>
    /\ result = Ok(<<>>)
    /\ pre[2] = [i \in 1..Len(pre[2]) |-> 0] =>
         /\ FieldAt(target, 0, 4) = <<0, 0, 0, 0>>
         /\ FieldAt(target, 224, 4) = <<0, 0, 0, 0>>
         /\ FieldAt(target, 208, 8) = FieldAt(call.data, 1, 8)
         /\ FieldAt(target, 232, 8) = <<call.slot, 0, 0, 0, 0, 0, 0, 0>>
         /\ \A d \in {Price_unpack_from_slice(target)} :
              /\ d.tag = "Ok"
              /\ d.val.magic = <<0, 0>>
              /\ d.val.agg.status = "Unknown"
              /\ d.val.agg.pub_slot = <<call.slot, 0, 0, 0>>

C30_Witness ==
  /\ result = Ok(<<>>) /\ call.nacc = 2 /\ phase = "raw"
  /\ pre[2] = [i \in 1..3312 |-> 0]
  /\ call.data = <<3, 0, 0, 0, 0, 0, 0, 0, 128, 0, 0, 0, 0>>
  /\ call.slot = 1
  /\ FieldAt(target, 208, 8) = <<0, 0, 0, 0, 0, 0, 0, 128>>
  /\ FieldAt(target, 232, 8) = <<1, 0, 0, 0, 0, 0, 0, 0>>

====
